---- MODULE Spec2Model ----
(***************************************************************************)
(* A model of the path / trace / canvas / playback core of HC-Wacom.       *)
(*                                                                         *)
(*   hc/src/robot.rs   Playback::play_and_notify, Playback::map,           *)
(*                     MOUSE_LOCK                                          *)
(*   hc/src/path.rs    EventCanvas, EventPath/EventTrace,                  *)
(*                     BitmapPath/BitmapTrace                              *)
(*                                                                         *)
(* f64 values of the program are modelled as exact rationals <<n, d>>      *)
(* kept in lowest terms with d > 0: a normalized coordinate raw/resolution *)
(* is the rational raw/CoordDen, the playback parameter x is the rational  *)
(* (number of increments)/steps.  Rounding error of the binary             *)
(* representation is not modelled.                                         *)
(***************************************************************************)
EXTENDS Integers, Sequences, FiniteSets, TLC

(***************************************************************************)
(* Bounds of the model.                                                    *)
(***************************************************************************)
\* Largest step count of a Playback configuration.
MaxSteps == 4
\* Largest number of events of an EventPath handed to a Playback.
MaxEvents == 2
\* Largest width of a BitmapPath image handed to a Playback (height 1).
MaxImgW == 2
\* Resolution of the digitizer: a coordinate is raw/CoordDen, raw in 0..CoordDen.
CoordDen == 2
\* Largest width and height of an EventCanvas.
MaxW == 5
MaxH == 2
\* Largest number of operations applied to one EventCanvas.
MaxOps == 3
\* Largest timestamp of an event given to an EventPath (timestamps 1..MaxTime).
MaxTime == 3
\* Largest number of events given to an EventPath before it is cleared.
MaxPathOps == 3
\* Largest number of calls of Trace::get made on one trace.
MaxGets == 2
\* Largest delta of a paced Playback, in clock ticks.
MaxDelta == 2
\* Last reading of the clock.
MaxNow == 4
\* The number of steps of the Playback the window starts.
PaintSteps == 2
\* Largest number of presses of the paint button of a bitmap window.
MaxPresses == 2

\* Largest number of reports the interface queue is given.
MaxQReports == 2
\* Largest number of pen data packets in one report.
MaxPenData == 2

\* Largest number of pen reports the device makes.
MaxReports == 2

(***************************************************************************)
(* Environment constants.                                                  *)
(***************************************************************************)
\* nwg::Monitor::width() and nwg::Monitor::height() of the primary monitor.
MonitorWidth == 8
MonitorHeight == 4
\* 256 * 256 - 1: the resolution of the absolute pointer coordinate space.
AbsRange == 65535
\* Saturation limits of the `as i32` conversion.
I32Max == 2147483647

(***************************************************************************)
(* Rational arithmetic (the model of f64).                                 *)
(***************************************************************************)
Abs(n) == IF n < 0 THEN -n ELSE n

Sgn(n) == IF n < 0 THEN -1 ELSE IF n > 0 THEN 1 ELSE 0

\* Euclid's algorithm.  (A function, so that its argument is evaluated once.)
Gcd[p \in Nat \X Nat] == IF p[2] = 0 THEN p[1] ELSE Gcd[<< p[2], p[1] % p[2] >>]

\* The fraction p[1]/p[2] (p[2] # 0) in lowest terms with a positive denominator.
LowestTerms[p \in Int \X Int] ==
    LET g == Gcd[<< Abs(p[1]), Abs(p[2]) >>]
        s == IF p[2] < 0 THEN -1 ELSE 1
    IN  << (s * p[1]) \div g, (s * p[2]) \div g >>

\* The rational n/d.
Q(n, d) == LowestTerms[<< n, d >>]

QInt(n) == << n, 1 >>

\* The pairs of rationals.  (The operations below are functions of such a
\* pair or of one rational, so that each operand is evaluated once.)
Rat == Int \X Int

Rat2 == Rat \X Rat

Sum[p \in Rat2] ==
    Q(p[1][1] * p[2][2] + p[2][1] * p[1][2], p[1][2] * p[2][2])

Difference[p \in Rat2] ==
    Q(p[1][1] * p[2][2] - p[2][1] * p[1][2], p[1][2] * p[2][2])

Product[p \in Rat2] == Q(p[1][1] * p[2][1], p[1][2] * p[2][2])

Quotient[p \in Rat2] == Q(p[1][1] * p[2][2], p[1][2] * p[2][1])

Floor[a \in Rat] == a[1] \div a[2]

Ceil[a \in Rat] ==
    IF a[1] % a[2] = 0 THEN a[1] \div a[2] ELSE (a[1] \div a[2]) + 1

Fract[a \in Rat] == Q(a[1] % a[2], a[2])

Round[a \in Rat] ==
    IF a[1] >= 0 THEN (2 * a[1] + a[2]) \div (2 * a[2])
    ELSE -((2 * (-a[1]) + a[2]) \div (2 * a[2]))

Trunc[a \in Rat] ==
    IF a[1] >= 0 THEN a[1] \div a[2] ELSE -((-a[1]) \div a[2])

Clamp01[a \in Rat] ==
    IF a[1] < 0 THEN QInt(0) ELSE IF a[1] > a[2] THEN QInt(1) ELSE a

\* f64 +, -, * and /.
QAdd(a, b) == Sum[<< a, b >>]

QSub(a, b) == Difference[<< a, b >>]

QMul(a, b) == Product[<< a, b >>]

QDiv(a, b) == Quotient[<< a, b >>]

\* f64::floor and f64::ceil, as integers.
QFloor(a) == Floor[a]

QCeil(a) == Ceil[a]

\* f64::fract of a non-negative value.
QFract(a) == Fract[a]

\* f64::round: to the nearest integer, halves away from zero.
QRound(a) == Round[a]

\* Truncation toward zero, the integer part an `as` cast keeps.
QTrunc(a) == Trunc[a]

\* f64::clamp(0.0, 1.0).
QClamp01(a) == Clamp01[a]

\* Saturation of an integer at the limits of i32.
SaturateI32[v \in Int] ==
    IF v > I32Max THEN I32Max ELSE IF v < -I32Max - 1 THEN -I32Max - 1 ELSE v

\* `as i32` of a float: truncation, saturating at the limits of i32.
AsI32(a) == SaturateI32[QTrunc(a)]

\* Saturation of an integer at 0.
SaturateUnsigned[v \in Int] == IF v < 0 THEN 0 ELSE v

\* `as usize` keeping the magnitude of a negative value.
AsUnsigned_magnitude(a) == Abs(QTrunc(a))

\* `as usize` and `as u32` of a float: truncation, negative values saturate to 0.
AsUnsigned(a) == SaturateUnsigned[QTrunc(a)]

(***************************************************************************)
(* Events and points.                                                      *)
(***************************************************************************)
\* The normalized coordinates the report decoder produces: raw / resolution.
Coords == { Q(r, CoordDen) : r \in 0..CoordDen }

\* stu::Event, with the fields the core reads.
Event(time, x, y, touching) ==
    [time |-> time, x |-> x, y |-> y, touching |-> touching]

\* path::Point.
Point(x, y, touch) == [x |-> x, y |-> y, touch |-> touch]

\* lerp with the weights of a and b exchanged.
lerp_reversed(s, a, b) == QAdd(QMul(s, a), QMul(QSub(QInt(1), s), b))

lerp(s, a, b) == QAdd(QMul(QSub(QInt(1), s), a), QMul(s, b))

(***************************************************************************)
(* Paths and traces (hc/src/path.rs).                                      *)
(***************************************************************************)
RECURSIVE ValuesFrom_descending(_, _)
\* The values of a map whose keys are in `keys`, in descending key order.
ValuesFrom_descending(events, keys) ==
    IF keys = {} THEN << >>
    ELSE LET k == CHOOSE m \in keys : \A o \in keys : m >= o
         IN  << events[k] >> \o ValuesFrom_descending(events, keys \ {k})

RECURSIVE ValuesFrom(_, _)
\* The values of a BTreeMap whose keys are in `keys`, in ascending key order.
ValuesFrom(events, keys) ==
    IF keys = {} THEN << >>
    ELSE LET k == CHOOSE m \in keys : \A o \in keys : m <= o
         IN  << events[k] >> \o ValuesFrom(events, keys \ {k})

\* EventPath::new: a path with no events.
EventPath_new == [kind |-> "event", events |-> << >>]

\* EventPath::process keeping the event already stored at the timestamp.
EventPath_process_keeps_first(self, event) ==
    IF event.time \in DOMAIN self.events
    THEN [path |-> self, ret |-> << self.events[event.time] >>]
    ELSE [path |-> [self EXCEPT !.events =
                       [t \in (DOMAIN self.events) \cup { event.time } |->
                           IF t = event.time THEN event ELSE self.events[t]]],
          ret |-> << >>]

\* EventPath::process: BTreeMap::insert(event.time(), event).  The path it
\* leaves and what it returns: << >> (None) or << old >> (Some(old)).
EventPath_process(self, event) ==
    [path |-> [self EXCEPT !.events =
                  [t \in (DOMAIN self.events) \cup { event.time } |->
                      IF t = event.time THEN event ELSE self.events[t]]],
     ret |-> IF event.time \in DOMAIN self.events
             THEN << self.events[event.time] >> ELSE << >>]

\* EventPath::clear removing the earliest event only.
EventPath_clear_earliest(self) ==
    [self EXCEPT !.events =
        [t \in { u \in DOMAIN self.events :
                     \E o \in DOMAIN self.events : o < u } |-> self.events[t]]]

\* EventPath::clear: BTreeMap::clear().
EventPath_clear(self) == [self EXCEPT !.events = << >>]

\* EventPath as IntoTrace: the events of the map, by ascending timestamp.
EventPath_trace(path) ==
    [kind |-> "event", events |-> ValuesFrom(path.events, DOMAIN path.events)]

\* EventTrace::get taking a trace of one event for an empty one.
EventTrace_get_single_empty(self, t) ==
    IF Len(self.events) <= 1 THEN << >>
    ELSE LET tt == QMul(QClamp01(t), QInt(Len(self.events) - 1))
             f == QFract(tt)
             i == QFloor(tt)
             j == QCeil(tt)
             a == self.events[AsUnsigned(QInt(i)) + 1]
             b == self.events[AsUnsigned(QInt(j)) + 1]
         IN  << Point(lerp(f, a.x, b.x), lerp(f, a.y, b.y), a.touching) >>

\* EventTrace::get: the points appended to the buffer (their number is returned).
EventTrace_get(self, t) ==
    IF Len(self.events) = 0 THEN << >>
    ELSE IF Len(self.events) = 1
    THEN << Point(self.events[1].x, self.events[1].y, self.events[1].touching) >>
    ELSE LET tt == QMul(QClamp01(t), QInt(Len(self.events) - 1))
             f == QFract(tt)
             i == QFloor(tt)
             j == QCeil(tt)
             a == self.events[AsUnsigned(QInt(i)) + 1]
             b == self.events[AsUnsigned(QInt(j)) + 1]
         IN  << Point(lerp(f, a.x, b.x), lerp(f, a.y, b.y), a.touching) >>

\* BitmapPath::new: the image forced into pure black (0) and white (255).
BitmapPath_new(width, height, luma) ==
    [kind |-> "bitmap", width |-> width, height |-> height,
     image |-> [px \in (0..(width - 1)) \X (0..(height - 1)) |->
                    IF luma[px] < 20 THEN 0 ELSE 255]]

RECURSIVE BitmapScan_row_major(_, _)
\* The loop of BitmapPath::trace with y outer and x inner.
BitmapScan_row_major(path, k) ==
    IF k >= path.width * path.height THEN << >>
    ELSE LET x == k % path.width
             y == k \div path.width
         IN  (IF path.image[<< x, y >>] = 0
              THEN << << Q(x, path.width), Q(y, path.height) >> >>
              ELSE << >>) \o BitmapScan_row_major(path, k + 1)

RECURSIVE BitmapScan(_, _)
\* The loop of BitmapPath::trace from pixel number k on, x outer and y inner.
BitmapScan(path, k) ==
    IF k >= path.width * path.height THEN << >>
    ELSE LET x == k \div path.height
             y == k % path.height
         IN  (IF path.image[<< x, y >>] = 0
              THEN << << Q(x, path.width), Q(y, path.height) >> >>
              ELSE << >>) \o BitmapScan(path, k + 1)

\* BitmapPath as IntoTrace.
BitmapPath_trace(path) == [kind |-> "bitmap", points |-> BitmapScan(path, 0)]

\* BitmapTrace::get appending the touching point of a dab and not its release.
BitmapTrace_get_press_only(self, t) ==
    LET index == AsUnsigned(QInt(QFloor(QMul(t, QInt(Len(self.points))))))
    IN  IF index < Len(self.points)
        THEN LET xy == self.points[index + 1]
             IN  << Point(xy[1], xy[2], TRUE) >>
        ELSE << >>

\* BitmapTrace::get: t is not clamped; past the last point nothing is appended.
BitmapTrace_get(self, t) ==
    LET index == AsUnsigned(QInt(QFloor(QMul(t, QInt(Len(self.points))))))
    IN  IF index < Len(self.points)
        THEN LET xy == self.points[index + 1]
             IN  << Point(xy[1], xy[2], TRUE), Point(xy[1], xy[2], FALSE) >>
        ELSE << >>

\* The count EventTrace::get returns: the literal of its return statements.
EventTrace_get_returns(self, t) == IF Len(self.events) = 0 THEN 0 ELSE 1

\* The count BitmapTrace::get returns: the literal of its return statements.
BitmapTrace_get_returns(self, t) ==
    LET index == AsUnsigned(QInt(QFloor(QMul(t, QInt(Len(self.points))))))
    IN  IF index < Len(self.points) THEN 2 ELSE 0

\* The count Trace::get returns, by the type of the trace.
Trace_get_returns(self, t) ==
    IF self.kind = "event" THEN EventTrace_get_returns(self, t)
    ELSE BitmapTrace_get_returns(self, t)

\* The indices at which EventTrace::get reads self.events.
EventTrace_get_indices(self, t) ==
    IF Len(self.events) = 0 THEN { }
    ELSE IF Len(self.events) = 1 THEN { 0 }
    ELSE LET tt == QMul(QClamp01(t), QInt(Len(self.events) - 1))
         IN  { AsUnsigned(QInt(QFloor(tt))), AsUnsigned(QInt(QCeil(tt))) }

\* The indices at which BitmapTrace::get reads self.points.
BitmapTrace_get_indices(self, t) ==
    LET index == AsUnsigned(QInt(QFloor(QMul(t, QInt(Len(self.points))))))
    IN  IF index < Len(self.points) THEN { index } ELSE { }

\* IntoTrace::trace, by the type of the path.
trace(path) ==
    IF path.kind = "event" THEN EventPath_trace(path) ELSE BitmapPath_trace(path)

\* Trace::get, by the type of the trace.
Trace_get(self, t) ==
    IF self.kind = "event" THEN EventTrace_get(self, t) ELSE BitmapTrace_get(self, t)

(***************************************************************************)
(* Playback (hc/src/robot.rs).                                             *)
(***************************************************************************)
\* u32::saturating_sub(1).
SaturatingSub1(n) == IF n = 0 THEN 0 ELSE n - 1

\* map_screen scaling by width and height in place of width - 1 and height - 1.
map_screen_full_size(self, point) ==
    LET a == self.target
    IN  << QAdd(QMul(point.x, QInt(a.width)), QInt(a.x)),
           QAdd(QMul(point.y, QInt(a.height)), QInt(a.y)) >>

\* The first half of Playback::map: the point in screen space, inside the
\* target area.
map_screen(self, point) ==
    LET a == self.target
    IN  << QAdd(QMul(point.x, QInt(SaturatingSub1(a.width))), QInt(a.x)),
           QAdd(QMul(point.y, QInt(SaturatingSub1(a.height))), QInt(a.y)) >>

\* Playback::map: a point in normalized space to absolute pointer units.
map(self, point) ==
    LET screen == map_screen(self, point)
        n == QInt(AbsRange)
    IN  << AsI32(QMul(QDiv(screen[1], QInt(MonitorWidth)), n)),
           AsI32(QMul(QDiv(screen[2], QInt(MonitorHeight)), n)) >>

(***************************************************************************)
(* EventCanvas (hc/src/path.rs).                                           *)
(*                                                                         *)
(* A canvas is [buffer, width, height, last]: buffer the sequence of its   *)
(* bytes (byte number i of the program is buffer[i + 1]), last either << >>*)
(* (None) or << <<x, y>> >> (Some((x, y))).                                *)
(***************************************************************************)
\* The number of bytes of the buffer: bits / 8, one more unless bits % 8 = 0.
BufferBytes(width, height) ==
    ((width * height) \div 8) + (IF (width * height) % 8 = 0 THEN 0 ELSE 1)

\* EventCanvas::new with the buffer filled with set bits.
EventCanvas_new_filled(width, height) ==
    [buffer |-> [i \in 1..BufferBytes(width, height) |-> 255],
     width |-> width, height |-> height, last |-> << >>]

\* EventCanvas::new, for a width and height it does not panic on (see
\* EventCanvas_new_outcome): the canvas it returns.
EventCanvas_new(width, height) ==
    [buffer |-> [i \in 1..BufferBytes(width, height) |-> 0],
     width |-> width, height |-> height, last |-> << >>]

\* index_offset numbering the pixels by rows of `height` pixels.
index_offset_by_height(self, px, py) ==
    IF px >= self.width \/ py >= self.height THEN << >>
    ELSE << << (py * self.height + px) \div 8, (py * self.height + px) % 8 >> >>

\* EventCanvas::index_offset: << >> (None) or << <<index, offset>> >>.
index_offset(self, px, py) ==
    IF px >= self.width \/ py >= self.height THEN << >>
    ELSE << << (py * self.width + px) \div 8, (py * self.width + px) % 8 >> >>

\* 1u8 << offset.
Bit(offset) == 2 ^ offset

\* byte & (1u8 << offset) != 0.
BitIsSet(byte, offset) == (byte \div Bit(offset)) % 2 = 1

\* EventCanvas::get: << >> (None) or << b >> (Some(b)).
EventCanvas_get(self, px, py) ==
    LET io == index_offset(self, px, py)
    IN  IF io = << >> THEN << >>
        ELSE << BitIsSet(self.buffer[io[1][1] + 1], io[1][2]) >>

\* The pixels the closure of ImageBuffer::from_fn(width, height, ..) is called
\* with: every (x, y) with x < width and y < height.
to_bitmap_reads(self) == (0..(self.width - 1)) \X (0..(self.height - 1))

\* The closure of to_bitmap painting a set pixel white and an unset one black.
to_bitmap_pixel_inverted(self, px, py) ==
    IF EventCanvas_get(self, px, py)[1] THEN << 255, 255, 255 >> ELSE << 0, 0, 0 >>

\* The closure of to_bitmap, on a pixel get is Some for: Rgb([0, 0, 0]) for a
\* set pixel and Rgb([255, 255, 255]) for an unset one.
to_bitmap_pixel(self, px, py) ==
    IF EventCanvas_get(self, px, py)[1] THEN << 0, 0, 0 >> ELSE << 255, 255, 255 >>

\* image.as_raw(): the samples of the image, row by row from the top, three
\* (R, G, B) per pixel.
to_bitmap_raw(self) ==
    [i \in 1..(3 * self.width * self.height) |->
        LET p == (i - 1) \div 3
        IN  to_bitmap_pixel(self, p % self.width, p \div self.width)[((i - 1) % 3) + 1]]

\* The length in bytes of a row of a 24-bit bitmap: 3 * width, rounded up to
\* a multiple of 4.
BmpRowBytes(width) == ((3 * width + 3) \div 4) * 4

\* BmpEncoder::encode(raw, width, height, Rgb8): the fields of the header that
\* describe the image, and the pixel array: rows from the bottom one up, each
\* pixel as B, G, R, each row padded with zero bytes.
BmpEncode(raw, width, height) ==
    [width |-> width, height |-> height, bits_per_pixel |-> 24,
     data |-> [i \in 1..(BmpRowBytes(width) * height) |->
                  LET row == height - 1 - ((i - 1) \div BmpRowBytes(width))
                      off == (i - 1) % BmpRowBytes(width)
                  IN  IF off >= 3 * width THEN 0
                      ELSE raw[3 * (row * width + (off \div 3)) + (2 - (off % 3)) + 1]]]

\* EventCanvas::to_bitmap: whether it panicked (an unwrap of a get that is
\* None) and the bitmap it returned.
EventCanvas_to_bitmap(self) ==
    IF \E px \in to_bitmap_reads(self) : EventCanvas_get(self, px[1], px[2]) = << >>
    THEN [panic |-> TRUE, bitmap |-> << >>]
    ELSE [panic |-> FALSE,
          bitmap |-> << BmpEncode(to_bitmap_raw(self), self.width, self.height) >>]

\* EventCanvas::set whose branch for val = false leaves the bit.
EventCanvas_set_only_sets(self, px, py, val) ==
    LET io == index_offset(self, px, py)
        index == io[1][1] + 1
        offset == io[1][2]
        byte == self.buffer[index]
    IN  [self EXCEPT !.buffer[index] =
            IF val
            THEN (IF BitIsSet(byte, offset) THEN byte ELSE byte + Bit(offset))
            ELSE byte]

\* EventCanvas::set on a pixel of the canvas (index_offset is Some).
EventCanvas_set(self, px, py, val) ==
    LET io == index_offset(self, px, py)
        index == io[1][1] + 1
        offset == io[1][2]
        byte == self.buffer[index]
    IN  [self EXCEPT !.buffer[index] =
            IF val
            THEN (IF BitIsSet(byte, offset) THEN byte ELSE byte + Bit(offset))
            ELSE (IF BitIsSet(byte, offset) THEN byte - Bit(offset) ELSE byte)]

\* Whether EventCanvas::set panics: the unwrap of index_offset's None.
EventCanvas_set_panics(self, px, py) == index_offset(self, px, py) = << >>

\* EventCanvas::clear zeroing the first byte of the buffer only.
EventCanvas_clear_first_byte(self) ==
    [self EXCEPT !.buffer = [i \in DOMAIN self.buffer |->
                                 IF i = 1 THEN 0 ELSE self.buffer[i]]]

\* EventCanvas::clear: every byte of the buffer zeroed.
EventCanvas_clear(self) ==
    [self EXCEPT !.buffer = [i \in DOMAIN self.buffer |-> 0]]

\* MappedPixel scaling by width and height in place of width - 1 and height - 1.
MappedPixel_by_size(self, event) ==
    << AsUnsigned(QInt(QRound(QMul(QInt(self.width), event.x)))),
       AsUnsigned(QInt(QRound(QMul(QInt(self.height), event.y)))) >>

\* The pixel process maps a touching event to: round((width - 1) * x) as u32.
MappedPixel(self, event) ==
    << AsUnsigned(QInt(QRound(QMul(QInt(self.width - 1), event.x)))),
       AsUnsigned(QInt(QRound(QMul(QInt(self.height - 1), event.y)))) >>

\* LinePixels stepping along the axis of the smaller delta.
LinePixels_minor_axis(from, to) ==
    LET dx == to[1] - from[1]
        dy == to[2] - from[2]
    IN  IF dx = 0 /\ dy = 0 THEN << >>
        ELSE IF Abs(dx) < Abs(dy)
        THEN [k \in 1..Abs(dx) |->
                 << from[1] + (k - 1) * Sgn(dx),
                    AsUnsigned(QInt(QRound(
                        QAdd(QInt(from[2]), Q((k - 1) * dy, Abs(dx)))))) >>]
        ELSE [k \in 1..Abs(dy) |->
                 << AsUnsigned(QInt(QRound(
                        QAdd(QInt(from[1]), Q((k - 1) * dx, Abs(dy)))))),
                    from[2] + (k - 1) * Sgn(dy) >>]

\* LinePixels whose loop runs two pixels past the end point.
LinePixels_past_end(from, to) ==
    LET dx == to[1] - from[1]
        dy == to[2] - from[2]
    IN  IF dx = 0 /\ dy = 0 THEN << >>
        ELSE IF Abs(dx) > Abs(dy)
        THEN [k \in 1..(Abs(dx) + 2) |->
                 << AsUnsigned(QInt(from[1] + (k - 1) * Sgn(dx))),
                    AsUnsigned(QInt(QRound(
                        QAdd(QInt(from[2]), Q((k - 1) * dy, Abs(dx)))))) >>]
        ELSE [k \in 1..(Abs(dy) + 2) |->
                 << AsUnsigned(QInt(QRound(
                        QAdd(QInt(from[1]), Q((k - 1) * dx, Abs(dy)))))),
                    AsUnsigned(QInt(from[2] + (k - 1) * Sgn(dy))) >>]

\* The pixels the line loop of process sets, in order, from `from` to `to`
\* (the end point excluded): one per step along the axis of the larger delta.
LinePixels(from, to) ==
    LET dx == to[1] - from[1]
        dy == to[2] - from[2]
    IN  IF dx = 0 /\ dy = 0 THEN << >>
        ELSE IF Abs(dx) > Abs(dy)
        THEN [k \in 1..Abs(dx) |->
                 << from[1] + (k - 1) * Sgn(dx),
                    AsUnsigned(QInt(QRound(
                        QAdd(QInt(from[2]), Q((k - 1) * dy, Abs(dx)))))) >>]
        ELSE [k \in 1..Abs(dy) |->
                 << AsUnsigned(QInt(QRound(
                        QAdd(QInt(from[1]), Q((k - 1) * dx, Abs(dy)))))),
                    from[2] + (k - 1) * Sgn(dy) >>]

\* The calls of set that process makes for a touching event, in order.
ProcessWrites(self, event) ==
    LET to == MappedPixel(self, event)
    IN  << to >> \o (IF self.last = << >> THEN << >>
                     ELSE LinePixels(self.last[1], to))

RECURSIVE SetAll(_, _)
\* The calls set(x, y, true) for the pixels of `writes`, in order, up to the
\* first that panics: the canvas reached and whether a call panicked.
SetAll(self, writes) ==
    IF writes = << >> THEN [canvas |-> self, panic |-> FALSE]
    ELSE IF EventCanvas_set_panics(self, writes[1][1], writes[1][2])
    THEN [canvas |-> self, panic |-> TRUE]
    ELSE SetAll(EventCanvas_set(self, writes[1][1], writes[1][2], TRUE),
                Tail(writes))

\* EventCanvas::process whose branch for a non-touching event leaves `last`.
EventCanvas_process_keeps_last(self, event) ==
    IF event.touching
    THEN LET r == SetAll(self, ProcessWrites(self, event))
         IN  IF r.panic THEN r
             ELSE [canvas |-> [r.canvas EXCEPT
                                  !.last = << MappedPixel(self, event) >>],
                   panic |-> FALSE]
    ELSE [canvas |-> self, panic |-> FALSE]

\* EventCanvas::process: the canvas it leaves and whether it panicked.
EventCanvas_process(self, event) ==
    IF event.touching
    THEN LET r == SetAll(self, ProcessWrites(self, event))
         IN  IF r.panic THEN r
             ELSE [canvas |-> [r.canvas EXCEPT
                                  !.last = << MappedPixel(self, event) >>],
                   panic |-> FALSE]
    ELSE [canvas |-> [self EXCEPT !.last = << >>], panic |-> FALSE]

(***************************************************************************)
(* State.                                                                  *)
(***************************************************************************)
VARIABLES
    \* robot.rs: static MOUSE_LOCK.
    MOUSE_LOCK,
    \* Per play_and_notify call: where the call, then its thread, stands.
    pc,
    \* Per call: `self`, the Playback moved into the thread.
    playback,
    \* Per thread: the locals x, pressed, trace, buffer and the range counter.
    x, pressed, tracev, buffer, iter,
    \* Per thread: the INPUT structures handed to SendInput, in order.
    sent,
    \* Per thread: the points drained from the buffer, in order (history).
    drained,
    \* Per thread: the calls of trace.get: iteration, t, points returned (history).
    sampled,
    \* Per call: whether sender.notice() was called.
    noticed,
    \* path.rs: one EventCanvas, and whether one of its calls panicked.
    canvas, canvas_panic,
    \* The last two operations applied to the canvas, the latest last, and the
    \* number of operations applied since it was constructed (history).
    canvas_ops, canvas_nops,
    \* The build: the number of bits of usize (target_pointer_width).
    target_pointer_width,
    \* The outcome of a call of EventCanvas::new: << >> before the call.
    constructed,
    \* path.rs: one EventPath.
    event_path,
    \* The events given to path.process since the path was new or cleared, in
    \* order (history), and what the last call of process returned.
    path_log, path_ret,
    \* path.rs: a path, the trace made of it (<< >> before trace() is called),
    \* the buffer given to Trace::get, and the calls of get made: t, the count
    \* returned and the length of the buffer before the call (history).
    curve_path, curve, out, gets,
    \* robot.rs: the last call of Playback::map: the target, the point, the
    \* screen position computed and the pair returned; << >> before any call.
    mapped,
    \* path.rs: the last call of EventCanvas::to_bitmap: the canvas it was made
    \* on and what it returned; << >> before any call.
    exported,
    \* window.rs, ManagementWindow: the queue of events received from the
    \* device and not yet taken, the `locked` flag, the number of events the
    \* device reported, whether the dispatch of handlers was stopped, the events
    \* given to canvas.process since the canvas was new or cleared (history),
    \* the bitmap on display, the number of notices of a finished playback
    \* the window has handled, and whether init() has shown the window.
    queue, locked, reports, stopped, canvas_log, display, handled, visible,
    \* History: the events update took from the queue while locked.
    dropped,
    \* The clock Instant::now() reads; per thread, the local timer1 and the
    \* time of its last SendInput of the loop (history).
    now, timer1, sent_at,
    \* robot.rs, Playback::steps: the number a NonZeroU32 was asked for, << >> before.
    requested,
    \* window/bitmap.rs: where the thread spawned by on_paint_pressed stands, the notices of area_selection_done sent and not yet handled, the presses of the paint button, and the path given to BitmapWindow::new.
    area_pc, area_notices, presses, bitmap_path,
    \* stu/src/report.rs: ReportHandler::queue, the reports waiting in the interface queue of the device, the number of reports made, and the result of the last receive call; history: the events returned, the events pushed, the events pushed and not cleared, and whether the assertion of handle failed.
    handler_queue, interface_queue, made, last_result, delivered, pushed, kept, assert_failed

vars == << MOUSE_LOCK, pc, playback, x, pressed, tracev, buffer, iter, sent,
           drained, sampled, noticed, canvas, canvas_panic, canvas_ops,
           canvas_nops, target_pointer_width, constructed, event_path, path_log,
           path_ret,
           curve_path, curve, out, gets,
           mapped,
           exported,
           queue, locked, reports, stopped, canvas_log, display, handled,
           dropped,
           visible,
           now, timer1, sent_at,
           requested,
           area_pc, area_notices, presses, bitmap_path,
           handler_queue, interface_queue, made, last_result, delivered, pushed, kept, assert_failed >>

playback_vars == << MOUSE_LOCK, pc, playback, x, pressed, tracev, buffer, iter,
                    sent, drained, sampled, noticed >>

canvas_vars == << canvas, canvas_panic, canvas_ops, canvas_nops >>

new_vars == << target_pointer_width, constructed >>

path_vars == << event_path, path_log, path_ret >>

trace_vars == << curve_path, curve, out, gets >>

map_vars == << mapped >>

export_vars == << exported >>

steps_vars == << requested >>

bitmap_vars == << area_pc, area_notices, presses, bitmap_path >>

queue_vars == << handler_queue, interface_queue, made, last_result, delivered,
                pushed, kept, assert_failed >>

aux_vars == << steps_vars, bitmap_vars, queue_vars >>

window_vars == << queue, locked, reports, stopped, canvas_log, display, handled,
                 visible, dropped >>

pace_vars == << now, timer1, sent_at >>

\* The variables the operations of each group leave as they are.
not_thread_vars == << canvas_vars, new_vars, path_vars, trace_vars, map_vars,
                      export_vars, aux_vars, window_vars >>

not_playback_vars == << not_thread_vars, pace_vars >>

not_canvas_vars == << playback_vars, new_vars, path_vars, trace_vars,
                      map_vars, export_vars, aux_vars, window_vars, pace_vars >>

not_new_vars == << playback_vars, canvas_vars, path_vars, trace_vars,
                   map_vars, export_vars, aux_vars, window_vars, pace_vars >>

not_path_vars == << playback_vars, canvas_vars, new_vars, trace_vars,
                    map_vars, export_vars, aux_vars, window_vars, pace_vars >>

not_trace_vars == << playback_vars, canvas_vars, new_vars, path_vars,
                     map_vars, export_vars, aux_vars, window_vars, pace_vars >>

not_map_vars == << playback_vars, canvas_vars, new_vars, path_vars,
                   trace_vars, export_vars, aux_vars, window_vars, pace_vars >>

not_export_vars == << playback_vars, canvas_vars, new_vars, path_vars,
                      trace_vars, map_vars, window_vars, pace_vars, aux_vars >>

not_window_vars == << playback_vars, canvas_vars, new_vars, path_vars,
                      trace_vars, map_vars, export_vars, aux_vars, pace_vars >>

not_pace_vars == << playback_vars, canvas_vars, new_vars, path_vars,
                    trace_vars, map_vars, export_vars, aux_vars, window_vars >>

not_aux_vars == << playback_vars, canvas_vars, new_vars, path_vars, trace_vars,
                   map_vars, export_vars, window_vars, pace_vars >>

\* The play_and_notify calls of one run of the process, numbered in the order
\* of their fetch_or on MOUSE_LOCK (an atomic operation orders them totally).
Calls == { 1, 2 }

(***************************************************************************)
(* The Playback values handed to play_and_notify.                          *)
(***************************************************************************)
\* The x coordinate of the k-th event of a played path.
PlayedX(k) == Q(k % (CoordDen + 1), CoordDen)

\* The EventPaths played: n events at timestamps 1..n, each touching or not.
PlayedEventPaths ==
    UNION { { [kind |-> "event",
               events |-> [k \in 1..n |->
                              Event(k, PlayedX(k), PlayedX(k + 1), touch[k])]] :
              touch \in [1..n -> BOOLEAN] } :
            n \in 0..MaxEvents }

\* The BitmapPaths played: one row of 1..MaxImgW pixels, each black or white.
PlayedBitmapPaths ==
    UNION { { BitmapPath_new(w, 1, luma) : luma \in [(0..(w - 1)) \X {0} -> {0, 255}] } :
            w \in 1..MaxImgW }

\* A target area inside the primary monitor.
PlayedTarget == [x |-> 1, y |-> 1, width |-> 5, height |-> 3]

\* The value of `bitmap_path` in the runs without a bitmap window: one white
\* pixel, a path with no point.
NoBitmapPath == BitmapPath_new(1, 1, [px \in { << 0, 0 >> } |-> 255])

Playbacks ==
    { [path |-> path, target |-> PlayedTarget, delta |-> 0, steps |-> steps] :
      path \in PlayedEventPaths \cup PlayedBitmapPaths, steps \in 1..MaxSteps }

\* The value of `playback` before the call.
NoPlayback ==
    [path |-> EventPath_new, target |-> PlayedTarget, delta |-> 0, steps |-> 1]

\* The value of `tracev` before the thread builds the trace.
NoTrace == [kind |-> "event", events |-> << >>]

(***************************************************************************)
(* Playback::play_and_notify (hc/src/robot.rs).                            *)
(*                                                                         *)
(* pc of a call:  idle -> panicked                       (the caller)      *)
(*                idle -> spawned -> loop -> point -> send -> spin -> ... -> *)
(*                finish -> release -> notify -> done    (the thread)      *)
(***************************************************************************)
\* fetch_or with its result ignored: the flag is set and never tested.
fetch_or_untested(flag) == [old |-> FALSE, new |-> TRUE]

\* The old value AtomicBool::fetch_or(true) returns, and the value it leaves.
fetch_or(flag) == [old |-> flag, new |-> TRUE]

\* play_and_notify whose rejected call puts the flag back to false.
play_and_notify_entry_resetting(c, self) ==
    /\ pc[c] = "idle"
    /\ \A earlier \in Calls : earlier < c => pc[earlier] # "idle"
    /\ LET r == fetch_or(MOUSE_LOCK)
       IN  IF r.old
           THEN /\ MOUSE_LOCK' = FALSE
                /\ pc' = [pc EXCEPT ![c] = "panicked"]
                /\ UNCHANGED playback
           ELSE /\ MOUSE_LOCK' = r.new
                /\ pc' = [pc EXCEPT ![c] = "spawned"]
                /\ playback' = [playback EXCEPT ![c] = self]
    /\ UNCHANGED << x, pressed, tracev, buffer, iter, sent, drained, sampled,
                    noticed, pace_vars >>

\* The entry of play_and_notify, on the caller's thread: test-and-set of
\* MOUSE_LOCK, panic when it was set, otherwise spawn the thread with `self`.
play_and_notify_entry(c, self) ==
    /\ pc[c] = "idle"
    /\ \A earlier \in Calls : earlier < c => pc[earlier] # "idle"
    /\ LET r == fetch_or(MOUSE_LOCK)
       IN  /\ MOUSE_LOCK' = r.new
           /\ IF r.old
              THEN /\ pc' = [pc EXCEPT ![c] = "panicked"]
                   /\ UNCHANGED playback
              ELSE /\ pc' = [pc EXCEPT ![c] = "spawned"]
                   /\ playback' = [playback EXCEPT ![c] = self]
    /\ UNCHANGED << x, pressed, tracev, buffer, iter, sent, drained, sampled,
                    noticed, pace_vars >>

\* A call of play_and_notify by a caller that does nothing else.
play_and_notify(c, self) ==
    /\ play_and_notify_entry(c, self)
    /\ UNCHANGED not_thread_vars

\* Thread_begin tracing the caller's live path in place of the thread's own.
Thread_begin_shared(c) ==
    /\ pc[c] = "spawned"
    /\ x' = [x EXCEPT ![c] = QInt(0)]
    /\ pressed' = [pressed EXCEPT ![c] = FALSE]
    /\ tracev' = [tracev EXCEPT ![c] = trace(event_path)]
    /\ buffer' = [buffer EXCEPT ![c] = << >>]
    /\ iter' = [iter EXCEPT ![c] = 0]
    /\ pc' = [pc EXCEPT ![c] = "loop"]
    /\ UNCHANGED << MOUSE_LOCK, playback, sent, drained, sampled, noticed,
                    not_playback_vars >>

\* The thread's first statements: x, pressed, trace, dt, dx, buffer.
Thread_begin(c) ==
    /\ pc[c] = "spawned"
    /\ x' = [x EXCEPT ![c] = QInt(0)]
    /\ pressed' = [pressed EXCEPT ![c] = FALSE]
    /\ tracev' = [tracev EXCEPT ![c] = trace(playback[c].path)]
    /\ buffer' = [buffer EXCEPT ![c] = << >>]
    /\ iter' = [iter EXCEPT ![c] = 0]
    /\ pc' = [pc EXCEPT ![c] = "loop"]
    /\ UNCHANGED << MOUSE_LOCK, playback, sent, drained, sampled, noticed,
                    not_playback_vars >>

\* Loop_sample with `continue` in place of `break` when the curve has no point.
Loop_sample_continue(c) ==
    /\ pc[c] = "loop"
    /\ IF iter[c] >= playback[c].steps
       THEN /\ pc' = [pc EXCEPT ![c] = "finish"]
            /\ UNCHANGED << buffer, iter, sampled >>
       ELSE LET points == Trace_get(tracev[c], x[c])
            IN  /\ sampled' = [sampled EXCEPT ![c] =
                       Append(@, [step |-> iter[c], t |-> x[c], n |-> Len(points)])]
                /\ iter' = [iter EXCEPT ![c] = @ + 1]
                /\ buffer' = [buffer EXCEPT ![c] = @ \o points]
                /\ pc' = [pc EXCEPT ![c] =
                       IF Len(points) = 0 THEN "loop" ELSE "point"]
    /\ UNCHANGED << MOUSE_LOCK, playback, x, pressed, tracev, sent, drained,
                    noticed,
                    not_playback_vars >>

\* The head of `for _ in 0..steps`: leave the loop after `steps` iterations,
\* otherwise evaluate the curve at x and leave the loop when it has no point.
Loop_sample(c) ==
    /\ pc[c] = "loop"
    /\ IF iter[c] >= playback[c].steps
       THEN /\ pc' = [pc EXCEPT ![c] = "finish"]
            /\ UNCHANGED << buffer, iter, sampled >>
       ELSE LET points == Trace_get(tracev[c], x[c])
            IN  /\ sampled' = [sampled EXCEPT ![c] =
                       Append(@, [step |-> iter[c], t |-> x[c], n |-> Len(points)])]
                /\ iter' = [iter EXCEPT ![c] = @ + 1]
                /\ buffer' = [buffer EXCEPT ![c] = @ \o points]
                /\ pc' = [pc EXCEPT ![c] =
                       IF Len(points) = 0 THEN "finish" ELSE "point"]
    /\ UNCHANGED << MOUSE_LOCK, playback, x, pressed, tracev, sent, drained,
                    noticed,
                    not_playback_vars >>

\* The button flag or-ed into dwFlags for a point.
ButtonFlag(isPressed, touch) ==
    IF ~isPressed /\ touch THEN { "LEFTDOWN" }
    ELSE IF isPressed /\ ~touch THEN { "LEFTUP" }
    ELSE { }

\* PressedAfter without `pressed = false` in the LEFTUP branch.
PressedAfter_never_reset(isPressed, touch) ==
    IF ~isPressed /\ touch THEN TRUE ELSE isPressed

\* `pressed` after the same if-chain.
PressedAfter(isPressed, touch) ==
    IF ~isPressed /\ touch THEN TRUE
    ELSE IF isPressed /\ ~touch THEN FALSE
    ELSE isPressed

\* Advance with dx computed by integer division: 1 / steps = 0 for steps > 1.
Advance_integer_dx(xv, steps) == QAdd(xv, QInt(1 \div steps))

\* x after `x += dx`, dx = 1.0 / steps.
Advance(xv, steps) == QAdd(xv, QDiv(QInt(1), QInt(steps)))

\* The first statement of the body of `for point in buffer.drain(..)`:
\* timer1 = Instant::now().
Point_timer(c) ==
    /\ pc[c] = "point"
    /\ timer1' = [timer1 EXCEPT ![c] = now]
    /\ pc' = [pc EXCEPT ![c] = "send"]
    /\ UNCHANGED << MOUSE_LOCK, playback, x, pressed, tracev, buffer, iter, sent,
                    drained, sampled, noticed, now, sent_at, not_thread_vars >>

\* One point of the drained buffer: map it, send the INPUT, advance x.
Point_send(c) ==
    /\ pc[c] = "send"
    /\ sent_at' = [sent_at EXCEPT ![c] = now]
    /\ LET point == Head(buffer[c])
           pos == map(playback[c], point)
       IN  /\ sent' = [sent EXCEPT ![c] = Append(@,
                  [dx |-> pos[1], dy |-> pos[2],
                   dwFlags |-> { "ABSOLUTE", "MOVE" }
                               \cup ButtonFlag(pressed[c], point.touch)])]
           /\ pressed' = [pressed EXCEPT ![c] = PressedAfter(@, point.touch)]
           /\ drained' = [drained EXCEPT ![c] = Append(@, point)]
    /\ buffer' = [buffer EXCEPT ![c] = Tail(@)]
    /\ x' = [x EXCEPT ![c] = Advance(@, playback[c].steps)]
    /\ pc' = [pc EXCEPT ![c] = "spin"]
    /\ UNCHANGED << MOUSE_LOCK, playback, tracev, iter, sampled, noticed, now,
                    timer1, not_thread_vars >>

\* timer1.elapsed() < dt is false, dt = delta / steps.
SpinIsOver(c) == (now - timer1[c]) * playback[c].steps >= playback[c].delta

\* Point_spin without the wait: straight on after the INPUT is sent.
Point_spin_no_wait(c) ==
    /\ pc[c] = "spin"
    /\ pc' = [pc EXCEPT ![c] = IF buffer[c] # << >> THEN "point" ELSE "loop"]
    /\ UNCHANGED << MOUSE_LOCK, playback, x, pressed, tracev, buffer, iter, sent,
                    drained, sampled, noticed,
                    not_playback_vars >>

\* The end of `while timer1.elapsed() < dt {}`: on to the next point of the
\* buffer, or back to the head of the loop.
Point_spin(c) ==
    /\ pc[c] = "spin"
    /\ SpinIsOver(c)
    /\ pc' = [pc EXCEPT ![c] = IF buffer[c] # << >> THEN "point" ELSE "loop"]
    /\ UNCHANGED << MOUSE_LOCK, playback, x, pressed, tracev, buffer, iter, sent,
                    drained, sampled, noticed,
                    not_playback_vars >>

\* Finish_button_up that releases the key only when `pressed` says it is down.
Finish_button_up_if_pressed(c) ==
    /\ pc[c] = "finish"
    /\ sent' = [sent EXCEPT ![c] =
           IF pressed[c]
           THEN Append(@, [dx |-> 0, dy |-> 0, dwFlags |-> { "LEFTUP" }])
           ELSE @]
    /\ pc' = [pc EXCEPT ![c] = "release"]
    /\ UNCHANGED << MOUSE_LOCK, playback, x, pressed, tracev, buffer, iter,
                    drained, sampled, noticed,
                    not_playback_vars >>

\* After the loop: tell the mouse to release the left key.
Finish_button_up(c) ==
    /\ pc[c] = "finish"
    /\ sent' = [sent EXCEPT ![c] =
           Append(@, [dx |-> 0, dy |-> 0, dwFlags |-> { "LEFTUP" }])]
    /\ pc' = [pc EXCEPT ![c] = "release"]
    /\ UNCHANGED << MOUSE_LOCK, playback, x, pressed, tracev, buffer, iter,
                    drained, sampled, noticed,
                    not_playback_vars >>

\* Finish_unlock without the store: the thread ends holding the lock.
Finish_unlock_missing(c) ==
    /\ pc[c] = "release"
    /\ pc' = [pc EXCEPT ![c] = "notify"]
    /\ UNCHANGED << MOUSE_LOCK, playback, x, pressed, tracev, buffer, iter, sent,
                    drained, sampled, noticed,
                    not_playback_vars >>

\* MOUSE_LOCK.store(false).
Finish_unlock(c) ==
    /\ pc[c] = "release"
    /\ MOUSE_LOCK' = FALSE
    /\ pc' = [pc EXCEPT ![c] = "notify"]
    /\ UNCHANGED << playback, x, pressed, tracev, buffer, iter, sent, drained,
                    sampled, noticed,
                    not_playback_vars >>

\* Finish_notice without the call of sender.notice().
Finish_notice_missing(c) ==
    /\ pc[c] = "notify"
    /\ pc' = [pc EXCEPT ![c] = "done"]
    /\ UNCHANGED << MOUSE_LOCK, playback, x, pressed, tracev, buffer, iter, sent,
                    drained, sampled, noticed,
                    not_playback_vars >>

\* sender.notice(), the thread's last statement.
Finish_notice(c) ==
    /\ pc[c] = "notify"
    /\ noticed' = [noticed EXCEPT ![c] = TRUE]
    /\ pc' = [pc EXCEPT ![c] = "done"]
    /\ UNCHANGED << MOUSE_LOCK, playback, x, pressed, tracev, buffer, iter, sent,
                    drained, sampled,
                    not_playback_vars >>

\* A call of play_and_notify with any Playback.
Call(c) ==
    /\ pc[c] = "idle"
    /\ \E self \in Playbacks : play_and_notify(c, self)

\* A step of the thread of call c.
Thread(c) ==
    \/ Thread_begin(c)
    \/ Loop_sample(c)
    \/ Point_timer(c)
    \/ Point_send(c)
    \/ Point_spin(c)
    \/ Finish_button_up(c)
    \/ Finish_unlock(c)
    \/ Finish_notice(c)

\* An EventCanvas of one pixel, the canvas of the runs that use none.
IdleCanvas == EventCanvas_new(1, 1)

InitPlayback ==
    /\ canvas = IdleCanvas
    /\ canvas_panic = FALSE
    /\ canvas_ops = << >>
    /\ canvas_nops = 0
    /\ MOUSE_LOCK = FALSE
    /\ pc = [c \in Calls |-> "idle"]
    /\ playback = [c \in Calls |-> NoPlayback]
    /\ x = [c \in Calls |-> QInt(0)]
    /\ pressed = [c \in Calls |-> FALSE]
    /\ tracev = [c \in Calls |-> NoTrace]
    /\ buffer = [c \in Calls |-> << >>]
    /\ iter = [c \in Calls |-> 0]
    /\ sent = [c \in Calls |-> << >>]
    /\ drained = [c \in Calls |-> << >>]
    /\ sampled = [c \in Calls |-> << >>]
    /\ noticed = [c \in Calls |-> FALSE]
    /\ target_pointer_width = 64
    /\ constructed = << >>
    /\ event_path = EventPath_new
    /\ path_log = << >>
    /\ path_ret = << >>
    /\ curve_path = EventPath_new
    /\ curve = << >>
    /\ out = << >>
    /\ gets = << >>
    /\ mapped = << >>
    /\ exported = << >>
    /\ queue = << >>
    /\ locked = FALSE
    /\ reports = 0
    /\ stopped = FALSE
    /\ canvas_log = << >>
    /\ display = << >>
    /\ handled = 0
    /\ dropped = { }
    /\ visible = FALSE
    /\ now = 0
    /\ timer1 = [c \in Calls |-> 0]
    /\ sent_at = [c \in Calls |-> 0]
    /\ requested = << >>
    /\ area_pc = "none"
    /\ area_notices = 0
    /\ presses = 0
    /\ bitmap_path = NoBitmapPath
    /\ handler_queue = << >>
    /\ interface_queue = << >>
    /\ made = 0
    /\ last_result = "none"
    /\ delivered = << >>
    /\ pushed = << >>
    /\ kept = << >>
    /\ assert_failed = FALSE

NextPlayback ==
    \/ \E c \in Calls : Call(c)
    \/ \E c \in Calls : Thread_begin(c)
    \/ \E c \in Calls : Loop_sample(c)
    \/ \E c \in Calls : Point_timer(c)
    \/ \E c \in Calls : Point_send(c)
    \/ \E c \in Calls : Point_spin(c)
    \/ \E c \in Calls : Finish_button_up(c)
    \/ \E c \in Calls : Finish_unlock(c)
    \/ \E c \in Calls : Finish_notice(c)

\* The callers of play_and_notify and the threads they spawn, no canvas.
SpecPlayback == InitPlayback /\ [][NextPlayback]_vars

\* The same, with every spawned thread scheduled until it ends (the pacing
\* wait of a scheduled thread ends).
FairSpecPlayback == SpecPlayback /\ \A c \in Calls : WF_vars(Thread(c))

(***************************************************************************)
(* Properties of Playback.                                                 *)
(***************************************************************************)
\* The call's thread exists and has not yet stored false into MOUSE_LOCK.
HoldsLock(c) ==
    pc[c] \in { "spawned", "loop", "point", "send", "spin", "finish", "release" }

\* The call's thread has stored false into MOUSE_LOCK.
Released(c) == pc[c] \in { "notify", "done" }

\* The call was made and did not panic.
Started(c) == pc[c] \notin { "idle", "panicked" }

\* The INPUT sent after the loop: LEFTUP alone, no move.
IsFinalUp(input) == input.dwFlags = { "LEFTUP" }

RECURSIVE LastTransition(_, _)
\* The last button transition among the first k inputs: "down", "up" or "none".
LastTransition(inputs, k) ==
    IF k = 0 THEN "none"
    ELSE IF "LEFTDOWN" \in inputs[k].dwFlags THEN "down"
    ELSE IF "LEFTUP" \in inputs[k].dwFlags THEN "up"
    ELSE LastTransition(inputs, k - 1)

RECURSIVE PointsBefore(_, _)
\* The number of points the first k calls of trace.get returned.
PointsBefore(samples, k) ==
    IF k = 0 THEN 0 ELSE samples[k].n + PointsBefore(samples, k - 1)

\* C1: at every moment at most one call's thread is between its spawn and its
\* release of MOUSE_LOCK, and the flag is set exactly while one is: it is set
\* by the test-and-set on entry and cleared only by the thread that holds it.
C1_AtMostOneRunning ==
    /\ Cardinality({ c \in Calls : HoldsLock(c) }) <= 1
    /\ MOUSE_LOCK <=> \E c \in Calls : HoldsLock(c)

\* C1 witness: a second playback runs, holding the flag, after the first one
\* released it.
C1_Witness ==
    /\ pc[1] = "done"
    /\ pc[2] = "spin"
    /\ MOUSE_LOCK

\* C2: a call made while the flag is set panics on the caller's side: no thread
\* is spawned for it, nothing else changes, and it is never run later.
C2_SecondStartIsFatal ==
    [][\A c \in Calls :
          /\ (pc[c] = "idle" /\ pc'[c] # "idle" /\ MOUSE_LOCK) =>
                 /\ pc'[c] = "panicked"
                 /\ MOUSE_LOCK'
                 /\ \A d \in Calls \ {c} : pc'[d] = pc[d]
                 /\ UNCHANGED << playback, x, pressed, tracev, buffer, iter,
                                 sent, drained, sampled, noticed >>
          /\ pc[c] = "panicked" =>
                 /\ pc'[c] = "panicked"
                 /\ sent'[c] = << >>
                 /\ ~noticed'[c]]_vars

\* C2 witness: the second call panicked while the first playback was emitting.
C2_Witness ==
    /\ pc[2] = "panicked"
    /\ pc[1] = "spin"
    /\ sent[1] # << >>

\* C3: once the loop of a playback is over and its final INPUT is sent, the
\* last INPUT sent is a button-up, however the loop ended.
C3_EndsWithButtonUp ==
    \A c \in Calls :
        pc[c] \in { "release", "notify", "done" } =>
            /\ sent[c] # << >>
            /\ "LEFTUP" \in sent[c][Len(sent[c])].dwFlags
            /\ LastTransition(sent[c], Len(sent[c])) = "up"

\* C3 witness: a playback whose loop ran all its steps and ended with
\* `pressed` true has finished.
C3_Witness ==
    \E c \in Calls :
        /\ pc[c] = "done"
        /\ pressed[c]
        /\ iter[c] = playback[c].steps
        /\ sampled[c][Len(sampled[c])].n > 0

\* C4: a thread that released the flag has sent its final button-up and sends
\* nothing after it; a thread that signalled completion has released the flag;
\* so when every started playback has signalled, the flag is clear.
C4_UpThenUnlockThenNotice ==
    /\ \A c \in Calls :
           /\ Released(c) =>
                  /\ Len(sent[c]) = Len(drained[c]) + 1
                  /\ IsFinalUp(sent[c][Len(sent[c])])
           /\ noticed[c] => Released(c)
           /\ HoldsLock(c) => ~noticed[c]
    /\ (\A c \in Calls : Started(c) => noticed[c]) => ~MOUSE_LOCK

\* C4 witness: a playback signalled completion and the next call found the
\* flag clear.
C4_Witness ==
    /\ noticed[1]
    /\ pc[2] = "spawned"

\* C5: every spawned playback thread reaches its end, with completion
\* signalled, after at most `steps` iterations of the loop; and the flag, once
\* set, is cleared again.
C5_EveryPlaybackTerminates ==
    /\ \A c \in Calls :
           (pc[c] = "spawned") ~>
               (pc[c] = "done" /\ noticed[c] /\ iter[c] <= playback[c].steps)
    /\ MOUSE_LOCK ~> ~MOUSE_LOCK

\* C5 witness: a playback that ran all its steps is done.
C5_Witness ==
    \E c \in Calls :
        /\ pc[c] = "done"
        /\ playback[c].steps = MaxSteps
        /\ iter[c] = MaxSteps
        /\ Len(drained[c]) = MaxSteps

\* C6: a run with steps = N sends at most N points (micro-steps).
C6_AtMostStepsMicroSteps ==
    \A c \in Calls : Len(drained[c]) <= playback[c].steps

\* C7: a trace.get that returns no point is the last one of its run: the
\* thread sends no further point and goes on to the final button-up, the
\* release of the flag and the notice.
C7_ExhaustionEndsRun ==
    \A c \in Calls : \A k \in 1..Len(sampled[c]) :
        sampled[c][k].n = 0 =>
            /\ k = Len(sampled[c])
            /\ pc[c] \in { "finish", "release", "notify", "done" }
            /\ buffer[c] = << >>
            /\ Len(drained[c]) = PointsBefore(sampled[c], k)
            /\ pc[c] = "done" =>
                   /\ IsFinalUp(sent[c][Len(sent[c])])
                   /\ Len(sent[c]) = Len(drained[c]) + 1
                   /\ noticed[c]

\* C7 witness: a run that sent points and then met a trace.get with no point
\* is done.
C7_Witness ==
    \E c \in Calls :
        /\ pc[c] = "done"
        /\ Len(sampled[c]) > 1
        /\ sampled[c][Len(sampled[c])].n = 0
        /\ iter[c] < playback[c].steps

\* C8: the k-th INPUT of the loop carries LEFTDOWN exactly when the k-th point
\* touches and the last transition before it was not a button-down, LEFTUP
\* exactly when the point does not touch and the last transition was a
\* button-down; `pressed` is true exactly when the last transition was a
\* button-down.
C8_ButtonTransitions ==
    \A c \in Calls :
        /\ \A k \in 1..Len(drained[c]) :
               LET before == LastTransition(sent[c], k - 1) = "down"
               IN  /\ "LEFTDOWN" \in sent[c][k].dwFlags
                          <=> (drained[c][k].touch /\ ~before)
                   /\ "LEFTUP" \in sent[c][k].dwFlags
                          <=> (~drained[c][k].touch /\ before)
                   /\ "MOVE" \in sent[c][k].dwFlags
        /\ pressed[c] <=> LastTransition(sent[c], Len(drained[c])) = "down"

\* C8 witness: a run sent button-down, button-up, button-down and button-up.
C8_Witness ==
    \E c \in Calls :
        /\ Len(drained[c]) >= 4
        /\ "LEFTDOWN" \in sent[c][1].dwFlags
        /\ "LEFTUP" \in sent[c][2].dwFlags
        /\ "LEFTDOWN" \in sent[c][3].dwFlags
        /\ "LEFTUP" \in sent[c][4].dwFlags

\* C9 as claimed: the k-th trace.get of a run, at iteration step = k - 1, is at
\* t = step / steps, whatever the trace.
C9_SampledAtStepOverSteps ==
    \A c \in Calls : \A k \in 1..Len(sampled[c]) :
        /\ sampled[c][k].step = k - 1
        /\ sampled[c][k].t = Q(k - 1, playback[c].steps)

\* C9 amended: the k-th trace.get of a run, at iteration step = k - 1, is at
\* t = m / steps, m the number of points sent before it: step / steps for an
\* EventPath (one point per iteration), 2 * step / steps for a BitmapPath (two).
C9_SampledAtPointsOverSteps ==
    \A c \in Calls : \A k \in 1..Len(sampled[c]) :
        /\ sampled[c][k].step = k - 1
        /\ sampled[c][k].t = Q(PointsBefore(sampled[c], k - 1), playback[c].steps)
        /\ playback[c].path.kind = "event" =>
               sampled[c][k].t = Q(k - 1, playback[c].steps)
        /\ playback[c].path.kind = "bitmap" =>
               sampled[c][k].t = Q(2 * (k - 1), playback[c].steps)

\* C9 witness: a BitmapPath run sampled its trace a second time, at 2 / steps.
C9_Witness ==
    \E c \in Calls :
        /\ playback[c].path.kind = "bitmap"
        /\ playback[c].steps > 2
        /\ Len(sampled[c]) >= 2
        /\ sampled[c][2].t = Q(2, playback[c].steps)
        /\ sampled[c][2].n = 2

(***************************************************************************)
(* One EventCanvas and the calls made on it.                               *)
(***************************************************************************)
\* The events fed to the canvas: touching at every coordinate, and not
\* touching (process reads no coordinate of such an event).
CanvasEvents ==
    { Event(0, ex, ey, TRUE) : ex \in Coords, ey \in Coords }
        \cup { Event(0, QInt(0), QInt(0), FALSE) }

\* canvas_ops after one more operation.
Logged(op) ==
    IF Len(canvas_ops) < 2 THEN Append(canvas_ops, op)
    ELSE << canvas_ops[2], op >>

\* canvas.process(event)
Canvas_process(event) ==
    /\ ~canvas_panic
    /\ canvas_nops < MaxOps
    /\ \E r \in { EventCanvas_process(canvas, event) } :
           /\ canvas' = r.canvas
           /\ canvas_panic' = r.panic
    /\ canvas_ops' = Logged([op |-> "process", event |-> event])
    /\ canvas_nops' = canvas_nops + 1
    /\ UNCHANGED not_canvas_vars

\* canvas.clear()
Canvas_clear ==
    /\ ~canvas_panic
    /\ canvas_nops < MaxOps
    /\ canvas' = EventCanvas_clear(canvas)
    /\ canvas_ops' = Logged([op |-> "clear", event |-> Event(0, QInt(0), QInt(0), FALSE)])
    /\ canvas_nops' = canvas_nops + 1
    /\ UNCHANGED << canvas_panic, not_canvas_vars >>

InitCanvas ==
    /\ \E width \in 1..MaxW, height \in 1..MaxH :
           canvas = EventCanvas_new(width, height)
    /\ canvas_panic = FALSE
    /\ canvas_ops = << >>
    /\ canvas_nops = 0
    /\ MOUSE_LOCK = FALSE
    /\ pc = [c \in Calls |-> "idle"]
    /\ playback = [c \in Calls |-> NoPlayback]
    /\ x = [c \in Calls |-> QInt(0)]
    /\ pressed = [c \in Calls |-> FALSE]
    /\ tracev = [c \in Calls |-> NoTrace]
    /\ buffer = [c \in Calls |-> << >>]
    /\ iter = [c \in Calls |-> 0]
    /\ sent = [c \in Calls |-> << >>]
    /\ drained = [c \in Calls |-> << >>]
    /\ sampled = [c \in Calls |-> << >>]
    /\ noticed = [c \in Calls |-> FALSE]
    /\ target_pointer_width = 64
    /\ constructed = << >>
    /\ event_path = EventPath_new
    /\ path_log = << >>
    /\ path_ret = << >>
    /\ curve_path = EventPath_new
    /\ curve = << >>
    /\ out = << >>
    /\ gets = << >>
    /\ mapped = << >>
    /\ exported = << >>
    /\ queue = << >>
    /\ locked = FALSE
    /\ reports = 0
    /\ stopped = FALSE
    /\ canvas_log = << >>
    /\ display = << >>
    /\ handled = 0
    /\ dropped = { }
    /\ visible = FALSE
    /\ now = 0
    /\ timer1 = [c \in Calls |-> 0]
    /\ sent_at = [c \in Calls |-> 0]
    /\ requested = << >>
    /\ area_pc = "none"
    /\ area_notices = 0
    /\ presses = 0
    /\ bitmap_path = NoBitmapPath
    /\ handler_queue = << >>
    /\ interface_queue = << >>
    /\ made = 0
    /\ last_result = "none"
    /\ delivered = << >>
    /\ pushed = << >>
    /\ kept = << >>
    /\ assert_failed = FALSE

NextCanvas ==
    \/ \E event \in CanvasEvents : Canvas_process(event)
    \/ Canvas_clear

\* One canvas of any size, fed events and cleared in any order.
SpecCanvas == InitCanvas /\ [][NextCanvas]_vars

(***************************************************************************)
(* Properties of EventCanvas.                                              *)
(***************************************************************************)
\* The pixels of the canvas that are set.
SetPixels(self) ==
    { px \in (0..(self.width - 1)) \X (0..(self.height - 1)) :
          EventCanvas_get(self, px[1], px[2]) = << TRUE >> }

\* C10: clear() leaves the line cursor "none": a touching event processed
\* right after clear() sets its own mapped pixel and no other, and no line is
\* drawn to it from a pixel touched before the clear.
C10_ClearResetsCursor ==
    (/\ Len(canvas_ops) = 2
     /\ canvas_ops[1].op = "clear"
     /\ canvas_ops[2].op = "process"
     /\ canvas_ops[2].event.touching
     /\ ~canvas_panic) =>
        SetPixels(canvas) = { MappedPixel(canvas, canvas_ops[2].event) }

\* The call of process or clear that a step of the canvas makes.
CanvasStep == canvas_ops'[Len(canvas_ops')]

\* A step of the canvas is a call of process with `touching` as given.
ProcessStep(touching) ==
    /\ canvas_nops' = canvas_nops + 1
    /\ CanvasStep.op = "process"
    /\ CanvasStep.event.touching = touching

\* The last call made on the canvas was process of a non-touching event.
AfterPenUp ==
    /\ canvas_ops # << >>
    /\ canvas_ops[Len(canvas_ops)].op = "process"
    /\ ~canvas_ops[Len(canvas_ops)].event.touching

\* C11: process of a non-touching event changes no pixel and no dimension and
\* leaves the line cursor None; process of a touching event right after it
\* sets the event's own mapped pixel and no other (no line is drawn from the
\* touching event before).
C11_PenUpBreaksLine ==
    [][/\ ProcessStep(FALSE) =>
              /\ canvas'.buffer = canvas.buffer
              /\ canvas'.width = canvas.width
              /\ canvas'.height = canvas.height
              /\ canvas'.last = << >>
              /\ ~canvas_panic'
       /\ (AfterPenUp /\ ProcessStep(TRUE)) =>
              /\ ~canvas_panic'
              /\ SetPixels(canvas') =
                     SetPixels(canvas) \cup { MappedPixel(canvas, CanvasStep.event) }]_vars

\* C11 witness: on a canvas three pixels wide a touching event at the left
\* end, a non-touching event and a touching event at the right end were
\* processed, and the pixel between them is not set.
C11_Witness ==
    /\ canvas.width = 3
    /\ canvas.height = 1
    /\ canvas_nops = 3
    /\ canvas_ops[1].op = "process" /\ ~canvas_ops[1].event.touching
    /\ canvas_ops[2].op = "process" /\ canvas_ops[2].event.touching
    /\ SetPixels(canvas) = { << 0, 0 >>, << 2, 0 >> }

\* The last call made on the canvas was process of a touching event.
AfterPenDown ==
    /\ canvas_ops # << >>
    /\ canvas_ops[Len(canvas_ops)].op = "process"
    /\ canvas_ops[Len(canvas_ops)].event.touching

\* The pixels process sets for a touching event mapped to `to` when the cursor
\* is at `from`, ordered from `from` to `to`.
LineChain(from, to) == LinePixels(from, to) \o << to >>

\* The larger of two naturals.
Max(a, b) == IF a >= b THEN a ELSE b

\* Two pixels are distinct neighbours, diagonals included.
Adjacent8(a, b) == Max(Abs(a[1] - b[1]), Abs(a[2] - b[2])) = 1

\* The integer v is a nearest integer to num / den (den > 0).
IsNearest(v, num, den) == 2 * Abs(v * den - num) <= den

\* `chain` joins p to q one pixel at a time along the axis with the larger
\* absolute delta (y when they are equal), the other coordinate a nearest
\* pixel to the straight line from p to q.
IsRoundedLine(chain, p, q) ==
    LET dx == q[1] - p[1]
        dy == q[2] - p[2]
        n == Max(Abs(dx), Abs(dy))
    IN  /\ Len(chain) = n + 1
        /\ chain[1] = p
        /\ chain[n + 1] = q
        /\ \A k \in 1..n : Adjacent8(chain[k], chain[k + 1])
        /\ \A k \in 1..n :
               IF Abs(dx) > Abs(dy)
               THEN /\ chain[k][1] = p[1] + (k - 1) * Sgn(dx)
                    /\ IsNearest(chain[k][2], p[2] * n + (k - 1) * dy, n)
               ELSE /\ chain[k][2] = p[2] + (k - 1) * Sgn(dy)
                    /\ IsNearest(chain[k][1], p[1] * n + (k - 1) * dx, n)

\* The elements of a sequence.
Range(seq) == { seq[k] : k \in DOMAIN seq }

\* C12: process of a touching event right after process of a touching event
\* sets, and only sets, the pixels of a chain from the first event's mapped
\* pixel to the second's: consecutive pixels of the chain are 8-neighbours,
\* the chain advances one pixel per step along the axis with the larger
\* absolute delta and its other coordinate is rounded to a nearest pixel of
\* the straight line.
C12_TouchingEventsAreJoined ==
    [][(AfterPenDown /\ ProcessStep(TRUE)) =>
           \A p \in { MappedPixel(canvas, canvas_ops[Len(canvas_ops)].event) },
              q \in { MappedPixel(canvas, CanvasStep.event) } :
               \A chain \in { LineChain(p, q) } :
                   /\ canvas.last = << p >>
                   /\ ~canvas_panic'
                   /\ IsRoundedLine(chain, p, q)
                   /\ SetPixels(canvas') = SetPixels(canvas) \cup Range(chain)
                   /\ { p, q } \subseteq SetPixels(canvas')
                   /\ canvas'.last = << q >>]_vars

\* C12 witness: two touching events were processed one after the other on a
\* canvas, the first mapped to (0,0) and the second to (3,1), and the line
\* between them went through (1,0) and (2,1).
C12_Witness ==
    /\ canvas_nops = 2
    /\ canvas_ops[1].op = "process" /\ canvas_ops[1].event.touching
    /\ canvas_ops[2].op = "process" /\ canvas_ops[2].event.touching
    /\ SetPixels(canvas) = { << 0, 0 >>, << 1, 0 >>, << 2, 1 >>, << 3, 1 >> }

\* The last call made on the canvas was process of a touching event at the
\* normalized position (ex, ey).
ProcessedTouchAt(ex, ey) ==
    /\ AfterPenDown
    /\ canvas_ops[Len(canvas_ops)].event.x = QInt(ex)
    /\ canvas_ops[Len(canvas_ops)].event.y = QInt(ey)

\* C13: after process of a touching event at (0.0, 0.0) pixel (0, 0) is set,
\* and after process of a touching event at (1.0, 1.0) pixel
\* (width - 1, height - 1) is set, whatever the width and height, 1 included.
C13_CornersMapToCorners ==
    /\ ProcessedTouchAt(0, 0) =>
           /\ ~canvas_panic
           /\ EventCanvas_get(canvas, 0, 0) = << TRUE >>
           /\ canvas.last = << << 0, 0 >> >>
    /\ ProcessedTouchAt(1, 1) =>
           /\ ~canvas_panic
           /\ EventCanvas_get(canvas, canvas.width - 1, canvas.height - 1) = << TRUE >>
           /\ canvas.last = << << canvas.width - 1, canvas.height - 1 >> >>

\* C13 witness: a touching event at (1.0, 1.0) was the first processed on a
\* canvas one pixel wide and MaxH high, and only its bottom pixel is set.
C13_Witness ==
    /\ canvas.width = 1
    /\ canvas.height = MaxH
    /\ canvas_nops = 1
    /\ ProcessedTouchAt(1, 1)
    /\ SetPixels(canvas) = { << 0, MaxH - 1 >> }

\* Coordinates asked of get: every pixel of the largest canvas and a margin
\* of one around it.
ProbedX == 0..(MaxW + 1)

ProbedY == 0..(MaxH + 1)

\* C14: on a canvas no call was made on since its construction, get is
\* Some(false) for every pixel inside it; and in every state of a canvas, get
\* is None exactly for the coordinates with x >= width or y >= height.
C14_FreshCanvasIsBlank ==
    /\ canvas_nops = 0 =>
           \A px \in 0..(canvas.width - 1), py \in 0..(canvas.height - 1) :
               EventCanvas_get(canvas, px, py) = << FALSE >>
    /\ \A px \in ProbedX, py \in ProbedY :
           (px >= canvas.width \/ py >= canvas.height)
               <=> EventCanvas_get(canvas, px, py) = << >>

\* C14 witness: a canvas just constructed, MaxW by MaxH pixels, whose buffer
\* has more than one byte.
C14_Witness ==
    /\ canvas_nops = 0
    /\ canvas.width = MaxW
    /\ canvas.height = MaxH
    /\ Len(canvas.buffer) > 1
    /\ EventCanvas_get(canvas, MaxW - 1, MaxH - 1) = << FALSE >>
    /\ EventCanvas_get(canvas, MaxW, MaxH - 1) = << >>

(***************************************************************************)
(* EventCanvas::new on any width and height, on a 32-bit or 64-bit build.  *)
(*                                                                         *)
(* A u64 too large for a model integer is a pair << hi, lo >> of value     *)
(* hi * Wide + lo with 0 <= lo < Wide.                                     *)
(***************************************************************************)
\* 2^30 and 2^15.
Wide == 1073741824

HalfWide == 32768

\* The pair of value hi * Wide + lo, for any lo >= 0.
WideOf(hi, lo) == << hi + lo \div Wide, lo % Wide >>

\* u64::from(a) * u64::from(b), for a and b below 2^30.
WideProduct(a, b) ==
    LET a1 == a \div HalfWide
        a0 == a % HalfWide
        b1 == b \div HalfWide
        b0 == b % HalfWide
        mid == a1 * b0 + a0 * b1
    IN  WideOf(a1 * b1 + mid \div HalfWide, (mid % HalfWide) * HalfWide + a0 * b0)

\* bits / 8 + if bits % 8 == 0 { 0 } else { 1 }, bits = width * height.
CanvasBytes(width, height) ==
    LET bits == WideProduct(width, height)
    IN  WideOf(bits[1] \div 8,
               (bits[1] % 8) * (Wide \div 8) + bits[2] \div 8
                   + (IF bits[2] % 8 = 0 THEN 0 ELSE 1))

\* usize::try_from(bytes: u64) is Ok: always on a 64-bit build, for
\* bytes < 2^32 on a 32-bit build.
FitsUsize(bytes, pointer_width) == pointer_width = 64 \/ bytes[1] < 4

\* vec![0u8; bytes] has a valid layout: bytes <= isize::MAX (below 2^31 on a
\* 32-bit build; a product of two u32 divided by 8 is always below 2^63).
FitsIsize(bytes, pointer_width) == pointer_width = 64 \/ bytes[1] < 2

\* An outcome of EventCanvas::new: a panic and its message, or a canvas (its
\* width, height, number of zeroed bytes and cursor).
Panicked(message) == [panic |-> TRUE, message |-> message, canvas |-> << >>]

\* EventCanvas::new silently taking a zero width or height for 1.
EventCanvas_new_coercing(width, height, pointer_width) ==
    LET w == IF width = 0 THEN 1 ELSE width
        h == IF height = 0 THEN 1 ELSE height
        bytes == CanvasBytes(w, h)
    IN  IF ~FitsUsize(bytes, pointer_width)
        THEN Panicked("Canvas size does not fit in a usize")
        ELSE IF ~FitsIsize(bytes, pointer_width)
        THEN Panicked("capacity overflow")
        ELSE [panic |-> FALSE, message |-> "",
              canvas |-> << [width |-> w, height |-> h,
                             bytes |-> bytes, last |-> << >>] >>]

\* EventCanvas::new, on any width and height: what the call does.  (The
\* allocation of a buffer with a valid layout is taken to succeed.)
EventCanvas_new_outcome(width, height, pointer_width) ==
    IF width = 0 THEN Panicked("Tried to create a canvas with no width.")
    ELSE IF height = 0 THEN Panicked("Tried to create a canvas with no height.")
    ELSE LET bytes == CanvasBytes(width, height)
         IN  IF ~FitsUsize(bytes, pointer_width)
             THEN Panicked("Canvas size does not fit in a usize")
             ELSE IF ~FitsIsize(bytes, pointer_width)
             THEN Panicked("capacity overflow")
             ELSE [panic |-> FALSE, message |-> "",
                   canvas |-> << [width |-> width, height |-> height,
                                  bytes |-> bytes, last |-> << >>] >>]

\* Widths and heights of the order of 2^15, 2^17, 2^18 and 2^30.
LargeDims == { 32768, 131072, 262144, 1073741823 }

\* The widths and heights given to EventCanvas::new.
NewWidths == (0..MaxW) \cup LargeDims

NewHeights == (0..MaxH) \cup LargeDims

\* EventCanvas::new(width, height)
Construct(width, height) ==
    /\ constructed = << >>
    /\ constructed' =
           << [width |-> width, height |-> height,
               outcome |-> EventCanvas_new_outcome(width, height,
                                                   target_pointer_width)] >>
    /\ UNCHANGED << target_pointer_width, not_new_vars >>

InitNew ==
    /\ target_pointer_width \in { 32, 64 }
    /\ constructed = << >>
    /\ MOUSE_LOCK = FALSE
    /\ pc = [c \in Calls |-> "idle"]
    /\ playback = [c \in Calls |-> NoPlayback]
    /\ x = [c \in Calls |-> QInt(0)]
    /\ pressed = [c \in Calls |-> FALSE]
    /\ tracev = [c \in Calls |-> NoTrace]
    /\ buffer = [c \in Calls |-> << >>]
    /\ iter = [c \in Calls |-> 0]
    /\ sent = [c \in Calls |-> << >>]
    /\ drained = [c \in Calls |-> << >>]
    /\ sampled = [c \in Calls |-> << >>]
    /\ noticed = [c \in Calls |-> FALSE]
    /\ canvas = IdleCanvas
    /\ canvas_panic = FALSE
    /\ canvas_ops = << >>
    /\ canvas_nops = 0
    /\ event_path = EventPath_new
    /\ path_log = << >>
    /\ path_ret = << >>
    /\ curve_path = EventPath_new
    /\ curve = << >>
    /\ out = << >>
    /\ gets = << >>
    /\ mapped = << >>
    /\ exported = << >>
    /\ queue = << >>
    /\ locked = FALSE
    /\ reports = 0
    /\ stopped = FALSE
    /\ canvas_log = << >>
    /\ display = << >>
    /\ handled = 0
    /\ dropped = { }
    /\ visible = FALSE
    /\ now = 0
    /\ timer1 = [c \in Calls |-> 0]
    /\ sent_at = [c \in Calls |-> 0]
    /\ requested = << >>
    /\ area_pc = "none"
    /\ area_notices = 0
    /\ presses = 0
    /\ bitmap_path = NoBitmapPath
    /\ handler_queue = << >>
    /\ interface_queue = << >>
    /\ made = 0
    /\ last_result = "none"
    /\ delivered = << >>
    /\ pushed = << >>
    /\ kept = << >>
    /\ assert_failed = FALSE

NextNew ==
    \E width \in NewWidths, height \in NewHeights : Construct(width, height)

\* One call of EventCanvas::new, on either build.
SpecNew == InitNew /\ [][NextNew]_vars

Pixels(self) == (0..(self.width - 1)) \X (0..(self.height - 1))

\* canvas.set(px, py, val), on a pixel of the canvas; the call is logged with
\* the canvas it was made on.
Canvas_set(px, py, val) ==
    /\ canvas_nops < MaxOps
    /\ << px, py >> \in Pixels(canvas)
    /\ canvas' = EventCanvas_set(canvas, px, py, val)
    /\ canvas_ops' = Logged([op |-> "set", px |-> px, py |-> py, val |-> val,
                             before |-> canvas])
    /\ canvas_nops' = canvas_nops + 1
    /\ UNCHANGED << canvas_panic, not_canvas_vars >>

\* canvas.clear(), on a canvas written by set; the call is logged with the
\* canvas it was made on.
Canvas_set_clear ==
    /\ canvas_nops < MaxOps
    /\ canvas' = EventCanvas_clear(canvas)
    /\ canvas_ops' = Logged([op |-> "clear", px |-> 0, py |-> 0, val |-> FALSE,
                             before |-> canvas])
    /\ canvas_nops' = canvas_nops + 1
    /\ UNCHANGED << canvas_panic, not_canvas_vars >>

InitSet ==
    /\ \E width \in 1..MaxW, height \in 1..MaxH :
           canvas = EventCanvas_new(width, height)
    /\ canvas_panic = FALSE
    /\ canvas_ops = << >>
    /\ canvas_nops = 0
    /\ MOUSE_LOCK = FALSE
    /\ pc = [c \in Calls |-> "idle"]
    /\ playback = [c \in Calls |-> NoPlayback]
    /\ x = [c \in Calls |-> QInt(0)]
    /\ pressed = [c \in Calls |-> FALSE]
    /\ tracev = [c \in Calls |-> NoTrace]
    /\ buffer = [c \in Calls |-> << >>]
    /\ iter = [c \in Calls |-> 0]
    /\ sent = [c \in Calls |-> << >>]
    /\ drained = [c \in Calls |-> << >>]
    /\ sampled = [c \in Calls |-> << >>]
    /\ noticed = [c \in Calls |-> FALSE]
    /\ target_pointer_width = 64
    /\ constructed = << >>
    /\ event_path = EventPath_new
    /\ path_log = << >>
    /\ path_ret = << >>
    /\ curve_path = EventPath_new
    /\ curve = << >>
    /\ out = << >>
    /\ gets = << >>
    /\ mapped = << >>
    /\ exported = << >>
    /\ queue = << >>
    /\ locked = FALSE
    /\ reports = 0
    /\ stopped = FALSE
    /\ canvas_log = << >>
    /\ display = << >>
    /\ handled = 0
    /\ dropped = { }
    /\ visible = FALSE
    /\ now = 0
    /\ timer1 = [c \in Calls |-> 0]
    /\ sent_at = [c \in Calls |-> 0]
    /\ requested = << >>
    /\ area_pc = "none"
    /\ area_notices = 0
    /\ presses = 0
    /\ bitmap_path = NoBitmapPath
    /\ handler_queue = << >>
    /\ interface_queue = << >>
    /\ made = 0
    /\ last_result = "none"
    /\ delivered = << >>
    /\ pushed = << >>
    /\ kept = << >>
    /\ assert_failed = FALSE

NextSet ==
    \/ \E px \in 0..(MaxW - 1), py \in 0..(MaxH - 1), val \in BOOLEAN :
           Canvas_set(px, py, val)
    \/ Canvas_set_clear

\* One canvas of any size and any sequence of calls of set on its pixels and
\* of clear.
SpecSet == InitSet /\ [][NextSet]_vars

\* The last two calls were set(px, py, true) then set(px, py, false), on the
\* same pixel.
SetThenUnset ==
    /\ Len(canvas_ops) = 2
    /\ canvas_ops[1].op = "set"
    /\ canvas_ops[2].op = "set"
    /\ canvas_ops[1].val
    /\ ~canvas_ops[2].val
    /\ canvas_ops[1].px = canvas_ops[2].px
    /\ canvas_ops[1].py = canvas_ops[2].py

\* C16 as claimed: after set(x, y, true) then set(x, y, false) the bit at
\* (x, y) is what it was before the two calls, whatever the canvas was.
C16_SetThenUnsetRestores ==
    SetThenUnset =>
        EventCanvas_get(canvas, canvas_ops[2].px, canvas_ops[2].py)
            = EventCanvas_get(canvas_ops[1].before, canvas_ops[2].px, canvas_ops[2].py)

\* C16 amended: after set(x, y, true) then set(x, y, false) the bit at (x, y)
\* is false and nothing else of the canvas has changed, so the canvas is what
\* it was before the two calls exactly when the bit was false then.  (After
\* any call set(x, y, val) the bit at (x, y) is val.)
C16_SetThenUnsetClears ==
    /\ (canvas_ops # << >> /\ canvas_ops[Len(canvas_ops)].op = "set") =>
           EventCanvas_get(canvas, canvas_ops[Len(canvas_ops)].px,
                           canvas_ops[Len(canvas_ops)].py)
               = << canvas_ops[Len(canvas_ops)].val >>
    /\ SetThenUnset =>
           LET before == canvas_ops[1].before
               pixel == << canvas_ops[2].px, canvas_ops[2].py >>
           IN  /\ EventCanvas_get(canvas, pixel[1], pixel[2]) = << FALSE >>
               /\ \A other \in Pixels(canvas) \ { pixel } :
                      EventCanvas_get(canvas, other[1], other[2])
                          = EventCanvas_get(before, other[1], other[2])
               /\ canvas.width = before.width
               /\ canvas.height = before.height
               /\ canvas.last = before.last
               /\ Len(canvas.buffer) = Len(before.buffer)
               /\ canvas = before
                      <=> EventCanvas_get(before, pixel[1], pixel[2]) = << FALSE >>

\* C16 witness: set(x, y, true) then set(x, y, false) were called on a pixel
\* that was set, in the second byte of the buffer, and the pixel is now unset.
C16_Witness ==
    /\ SetThenUnset
    /\ canvas_ops[2].py * canvas.width + canvas_ops[2].px >= 8
    /\ EventCanvas_get(canvas_ops[1].before, canvas_ops[2].px, canvas_ops[2].py)
           = << TRUE >>
    /\ EventCanvas_get(canvas, canvas_ops[2].px, canvas_ops[2].py) = << FALSE >>

\* The last call made on the canvas written by set was clear.
AfterClear ==
    /\ canvas_ops # << >>
    /\ canvas_ops[Len(canvas_ops)].op = "clear"

\* C17: after clear() every pixel of the canvas is false (every byte of the
\* buffer is 0), whatever pixels were set before, and the canvas has the width,
\* the height and the buffer length it had.
C17_ClearUnsetsEveryPixel ==
    AfterClear =>
        LET before == canvas_ops[Len(canvas_ops)].before
        IN  /\ \A pixel \in Pixels(before) :
                   EventCanvas_get(canvas, pixel[1], pixel[2]) = << FALSE >>
            /\ \A i \in DOMAIN canvas.buffer : canvas.buffer[i] = 0
            /\ canvas.width = before.width
            /\ canvas.height = before.height
            /\ Len(canvas.buffer) = Len(before.buffer)

\* C17 witness: clear() was called on a canvas with a pixel set in each of the
\* two bytes of its buffer, and no pixel is set now.
C17_Witness ==
    /\ AfterClear
    /\ Len(canvas.buffer) = 2
    /\ \A i \in 1..2 : canvas_ops[Len(canvas_ops)].before.buffer[i] # 0
    /\ SetPixels(canvas) = {}

(***************************************************************************)
(* One EventPath and the calls of process and clear made on it.            *)
(***************************************************************************)
\* The events given to the path: at a timestamp, at either end of the x
\* axis, touching or not.
PathEvents ==
    { Event(time, ex, QSub(QInt(1), ex), touching) :
          time \in 1..MaxTime, ex \in { QInt(0), QInt(1) }, touching \in BOOLEAN }

\* path.process(event)
Path_process(event) ==
    /\ Len(path_log) < MaxPathOps
    /\ \E r \in { EventPath_process(event_path, event) } :
           /\ event_path' = r.path
           /\ path_ret' = r.ret
    /\ path_log' = Append(path_log, event)
    /\ UNCHANGED not_path_vars

\* path.clear()
Path_clear ==
    /\ event_path' = EventPath_clear(event_path)
    /\ path_log' = << >>
    /\ UNCHANGED << path_ret, not_path_vars >>

InitPath ==
    /\ event_path = EventPath_new
    /\ path_log = << >>
    /\ path_ret = << >>
    /\ MOUSE_LOCK = FALSE
    /\ pc = [c \in Calls |-> "idle"]
    /\ playback = [c \in Calls |-> NoPlayback]
    /\ x = [c \in Calls |-> QInt(0)]
    /\ pressed = [c \in Calls |-> FALSE]
    /\ tracev = [c \in Calls |-> NoTrace]
    /\ buffer = [c \in Calls |-> << >>]
    /\ iter = [c \in Calls |-> 0]
    /\ sent = [c \in Calls |-> << >>]
    /\ drained = [c \in Calls |-> << >>]
    /\ sampled = [c \in Calls |-> << >>]
    /\ noticed = [c \in Calls |-> FALSE]
    /\ canvas = IdleCanvas
    /\ canvas_panic = FALSE
    /\ canvas_ops = << >>
    /\ canvas_nops = 0
    /\ target_pointer_width = 64
    /\ constructed = << >>
    /\ curve_path = EventPath_new
    /\ curve = << >>
    /\ out = << >>
    /\ gets = << >>
    /\ mapped = << >>
    /\ exported = << >>
    /\ queue = << >>
    /\ locked = FALSE
    /\ reports = 0
    /\ stopped = FALSE
    /\ canvas_log = << >>
    /\ display = << >>
    /\ handled = 0
    /\ dropped = { }
    /\ visible = FALSE
    /\ now = 0
    /\ timer1 = [c \in Calls |-> 0]
    /\ sent_at = [c \in Calls |-> 0]
    /\ requested = << >>
    /\ area_pc = "none"
    /\ area_notices = 0
    /\ presses = 0
    /\ bitmap_path = NoBitmapPath
    /\ handler_queue = << >>
    /\ interface_queue = << >>
    /\ made = 0
    /\ last_result = "none"
    /\ delivered = << >>
    /\ pushed = << >>
    /\ kept = << >>
    /\ assert_failed = FALSE

NextPath ==
    \/ \E event \in PathEvents : Path_process(event)
    \/ Path_clear

\* One path, given events and cleared in any order.
SpecPath == InitPath /\ [][NextPath]_vars

\* The calls of process, among the first n logged, made with the timestamp.
ProcessedAt(time, n) == { k \in 1..n : path_log[k].time = time }

\* The largest element of a non-empty set of naturals.
Latest(ks) == CHOOSE k \in ks : \A o \in ks : o <= k

\* C18: the path holds one event per timestamp given to process since it was
\* new or cleared, the last one given with that timestamp; and the last call
\* of process returned the event it replaced, the one given before with the
\* same timestamp, or None when there was none.
C18_LastWriteWins ==
    /\ DOMAIN event_path.events = { path_log[k].time : k \in DOMAIN path_log }
    /\ \A time \in DOMAIN event_path.events :
           event_path.events[time] = path_log[Latest(ProcessedAt(time, Len(path_log)))]
    /\ path_log # << >> =>
           LET n == Len(path_log)
               earlier == ProcessedAt(path_log[n].time, n - 1)
           IN  path_ret = IF earlier = {} THEN << >>
                          ELSE << path_log[Latest(earlier)] >>

\* C18 witness: three events were processed, the third with the timestamp of
\* the first and other contents; the path holds two events and the last call
\* returned the first event.
C18_Witness ==
    /\ Len(path_log) = 3
    /\ path_log[1].time = path_log[3].time
    /\ path_log[1] # path_log[3]
    /\ path_log[2].time # path_log[1].time
    /\ Cardinality(DOMAIN event_path.events) = 2
    /\ path_ret = << path_log[1] >>
    /\ event_path.events[path_log[3].time] = path_log[3]

RECURSIVE PathOf(_, _)
\* The path left by process called on `self` with the events of a sequence,
\* in order.
PathOf(self, events) ==
    IF events = << >> THEN self
    ELSE PathOf(EventPath_process(self, events[1]).path, Tail(events))

\* The parameters given to Trace::get: inside, at the ends of and outside [0, 1].
SampledTs == { Q(k, MaxSteps) : k \in 0..MaxSteps } \cup { Q(-1, 2), Q(3, 2) }

\* The events of the log have distinct timestamps.
DistinctTimes ==
    \A i \in DOMAIN path_log, j \in DOMAIN path_log :
        path_log[i].time = path_log[j].time => i = j

\* C19: the trace of the path lists the events the path holds by strictly
\* ascending timestamp; and a path given the logged events, of distinct
\* timestamps, in any other order has the same trace and the same points from
\* get(t) for every t.
C19_TraceIsByTimestamp ==
    \A tr \in { EventPath_trace(event_path) } :
        /\ Len(tr.events) = Cardinality(DOMAIN event_path.events)
        /\ Range(tr.events) = { event_path.events[time] : time \in DOMAIN event_path.events }
        /\ \A i \in DOMAIN tr.events, j \in DOMAIN tr.events :
               i < j => tr.events[i].time < tr.events[j].time
        /\ DistinctTimes =>
               \A order \in Permutations(DOMAIN path_log) :
                   \A other \in { EventPath_trace(
                                      PathOf(EventPath_new,
                                             [k \in DOMAIN path_log |-> path_log[order[k]]])) } :
                       /\ other.events = tr.events
                       /\ \A t \in SampledTs :
                              EventTrace_get(other, t) = EventTrace_get(tr, t)

\* C19 witness: three events were processed with timestamps in the order
\* 3, 1, 2 and the trace lists them in the order 1, 2, 3.
C19_Witness ==
    /\ Len(path_log) = 3
    /\ path_log[1].time = 3
    /\ path_log[2].time = 1
    /\ path_log[3].time = 2
    /\ EventPath_trace(event_path).events = << path_log[2], path_log[3], path_log[1] >>

\* C20: a path that holds no event has a trace whose get appends no point (and
\* returns 0) for every t; and a path is in that state when it is new and when
\* clear() was its last call, whatever was processed before.
C20_EmptyTraceYieldsNothing ==
    /\ path_log = << >> => DOMAIN event_path.events = {}
    /\ DOMAIN event_path.events = {} =>
           /\ EventPath_trace(event_path).events = << >>
           /\ \A t \in SampledTs :
                  /\ EventTrace_get(EventPath_trace(event_path), t) = << >>
                  /\ Trace_get(trace(event_path), t) = << >>

\* C20 witness: the path was cleared after process calls the last of which
\* replaced an event, and its trace yields nothing at t = 0.
C20_Witness ==
    /\ path_log = << >>
    /\ path_ret # << >>
    /\ EventTrace_get(EventPath_trace(event_path), QInt(0)) = << >>

(***************************************************************************)
(* One path, the trace made of it and the calls of Trace::get made on it.  *)
(***************************************************************************)
\* The timestamp of the k-th event of a sampled path: unevenly spaced.
SampledTime(k) == k * k

\* The EventPaths sampled: n events, at x = 1/2, 1, 0, ... and y the x of the
\* next, each touching or not.
SampledEventPaths ==
    UNION { { [kind |-> "event",
               events |-> [time \in { SampledTime(k) : k \in 1..n } |->
                              LET k == CHOOSE i \in 1..n : SampledTime(i) = time
                              IN  Event(time, PlayedX(k), PlayedX(k + 1), touch[k])]] :
              touch \in [1..n -> BOOLEAN] } :
            n \in 0..MaxTime }

\* The BitmapPaths sampled: 1..MaxImgW columns of one or two pixels, each
\* black or white.
SampledBitmapPaths ==
    UNION { { BitmapPath_new(size[1], size[2], luma) :
              luma \in [(0..(size[1] - 1)) \X (0..(size[2] - 1)) -> {0, 255}] } :
            size \in (1..MaxImgW) \X (1..2) }

\* The parameters given to Trace::get: k/d for every d up to MaxSteps, the
\* ends 0 and 1 included, and values below 0 and above 1.
TraceTs ==
    { Q(kd[1], kd[2]) : kd \in { p \in (0..MaxSteps) \X (1..MaxSteps) : p[1] <= p[2] } }
        \cup { Q(-1, 2), Q(3, 2) }

\* path.trace()
Trace_build ==
    /\ curve = << >>
    /\ curve' = << trace(curve_path) >>
    /\ UNCHANGED << curve_path, out, gets, not_trace_vars >>

\* Trace_sample on a trace that is used up by the call: get drops the first
\* element of the array it read.
Trace_sample_consuming(t) ==
    /\ curve # << >>
    /\ Len(gets) < MaxGets
    /\ out' = out \o Trace_get(curve[1], t)
    /\ gets' = Append(gets, [t |-> t, ret |-> Trace_get_returns(curve[1], t),
                             before |-> Len(out)])
    /\ curve' = << IF curve[1].kind = "event"
                   THEN [curve[1] EXCEPT !.events =
                            IF @ = << >> THEN @ ELSE Tail(@)]
                   ELSE [curve[1] EXCEPT !.points =
                            IF @ = << >> THEN @ ELSE Tail(@)] >>
    /\ UNCHANGED << curve_path, not_trace_vars >>

\* trace.get(t, &mut out)
Trace_sample(t) ==
    /\ curve # << >>
    /\ Len(gets) < MaxGets
    /\ out' = out \o Trace_get(curve[1], t)
    /\ gets' = Append(gets, [t |-> t, ret |-> Trace_get_returns(curve[1], t),
                             before |-> Len(out)])
    /\ UNCHANGED << curve_path, curve, not_trace_vars >>

InitTrace ==
    /\ curve_path \in SampledEventPaths \cup SampledBitmapPaths
    /\ curve = << >>
    /\ out = << >>
    /\ gets = << >>
    /\ MOUSE_LOCK = FALSE
    /\ pc = [c \in Calls |-> "idle"]
    /\ playback = [c \in Calls |-> NoPlayback]
    /\ x = [c \in Calls |-> QInt(0)]
    /\ pressed = [c \in Calls |-> FALSE]
    /\ tracev = [c \in Calls |-> NoTrace]
    /\ buffer = [c \in Calls |-> << >>]
    /\ iter = [c \in Calls |-> 0]
    /\ sent = [c \in Calls |-> << >>]
    /\ drained = [c \in Calls |-> << >>]
    /\ sampled = [c \in Calls |-> << >>]
    /\ noticed = [c \in Calls |-> FALSE]
    /\ canvas = IdleCanvas
    /\ canvas_panic = FALSE
    /\ canvas_ops = << >>
    /\ canvas_nops = 0
    /\ target_pointer_width = 64
    /\ constructed = << >>
    /\ event_path = EventPath_new
    /\ path_log = << >>
    /\ path_ret = << >>
    /\ mapped = << >>
    /\ exported = << >>
    /\ queue = << >>
    /\ locked = FALSE
    /\ reports = 0
    /\ stopped = FALSE
    /\ canvas_log = << >>
    /\ display = << >>
    /\ handled = 0
    /\ dropped = { }
    /\ visible = FALSE
    /\ now = 0
    /\ timer1 = [c \in Calls |-> 0]
    /\ sent_at = [c \in Calls |-> 0]
    /\ requested = << >>
    /\ area_pc = "none"
    /\ area_notices = 0
    /\ presses = 0
    /\ bitmap_path = NoBitmapPath
    /\ handler_queue = << >>
    /\ interface_queue = << >>
    /\ made = 0
    /\ last_result = "none"
    /\ delivered = << >>
    /\ pushed = << >>
    /\ kept = << >>
    /\ assert_failed = FALSE

NextTrace ==
    \/ Trace_build
    \/ \E t \in TraceTs : Trace_sample(t)

\* One path of either kind, its trace, and calls of get in any order.
SpecTrace == InitTrace /\ [][NextTrace]_vars

\* The points the k-th call of get appended to the buffer.
Appended(k) == SubSeq(out, gets[k].before + 1,
                      IF k < Len(gets) THEN gets[k + 1].before ELSE Len(out))

\* The number of events of the sampled path, 0 for a BitmapPath.
SampleCount ==
    IF curve_path.kind = "event" THEN Cardinality(DOMAIN curve_path.events) ELSE 0

\* The event of the sampled path with k events before it in time.
Sample(k) ==
    curve_path.events[CHOOSE time \in DOMAIN curve_path.events :
                          Cardinality({ o \in DOMAIN curve_path.events : o < time }) = k]

\* C21: every call of get on the trace of a path of exactly one event appends
\* exactly one point, with the x, the y and the touch flag of that event, and
\* returns 1, for every t (inside [0, 1] and outside).
C21_SingleSampleForEveryT ==
    (curve_path.kind = "event" /\ SampleCount = 1) =>
        \A k \in DOMAIN gets :
            /\ gets[k].ret = 1
            /\ Appended(k) = << [x |-> Sample(0).x, y |-> Sample(0).y,
                                 touch |-> Sample(0).touching] >>

\* C21 witness: the trace of a path of one touching event was sampled at
\* t = 0 and then at t = 1, and the buffer holds that event's point twice.
C21_Witness ==
    /\ curve_path.kind = "event"
    /\ SampleCount = 1
    /\ Len(gets) = 2
    /\ gets[1].t = QInt(0)
    /\ gets[2].t = QInt(1)
    /\ Sample(0).touching
    /\ out = << Point(Sample(0).x, Sample(0).y, TRUE),
                Point(Sample(0).x, Sample(0).y, TRUE) >>

\* t is inside [0, 1].
InUnit(t) == t[1] >= 0 /\ t[1] <= t[2]

\* The point at the position num / den of the array of samples (den > 0,
\* 0 <= num / den <= SampleCount - 1), between the sample at `lo`, the integer
\* with lo <= num / den < lo + 1, and the sample at `hi`, the integer with
\* hi - 1 < num / den <= hi: a + f * (b - a) for x and y, f = num / den - lo,
\* and the touch flag of the sample at `lo`.
Interpolated(num, den) ==
    LET lo == CHOOSE i \in 0..(SampleCount - 1) : i * den <= num /\ num < (i + 1) * den
        hi == CHOOSE j \in 0..(SampleCount - 1) : (j - 1) * den < num /\ num <= j * den
        f == Q(num - lo * den, den)
        a == Sample(lo)
        b == Sample(hi)
    IN  [x |-> QAdd(a.x, QMul(f, QSub(b.x, a.x))),
         y |-> QAdd(a.y, QMul(f, QSub(b.y, a.y))),
         touch |-> a.touching]

\* C22: every call get(t), t in [0, 1], on the trace of a path of n >= 2
\* events appends exactly one point and returns 1: the point interpolated
\* linearly, by the fractional part of index = t * (n - 1), between the samples
\* at floor(index) and ceil(index) of the array ordered by time, with the touch
\* flag of the sample at floor(index).  For t = k / (n - 1) it is sample k, for
\* t = 0 the first sample and for t = 1 the last.
C22_SamplesAreInterpolated ==
    (curve_path.kind = "event" /\ SampleCount >= 2) =>
        \A c \in DOMAIN gets :
            InUnit(gets[c].t) =>
                LET n == SampleCount
                    t == gets[c].t
                IN  /\ gets[c].ret = 1
                    /\ Appended(c) = << Interpolated(t[1] * (n - 1), t[2]) >>
                    /\ \A k \in 0..(n - 1) :
                           t = Q(k, n - 1) =>
                               Appended(c) = << [x |-> Sample(k).x, y |-> Sample(k).y,
                                                 touch |-> Sample(k).touching] >>
                    /\ t = QInt(0) =>
                           Appended(c) = << Point(Sample(0).x, Sample(0).y,
                                                  Sample(0).touching) >>
                    /\ t = QInt(1) =>
                           Appended(c) = << Point(Sample(n - 1).x, Sample(n - 1).y,
                                                  Sample(n - 1).touching) >>

\* C22 witness: the trace of three events, at (1/2, 1) touching, at (1, 0) not
\* touching and at (0, 1/2), was sampled at t = 1/4, halfway between the first
\* two, and then at t = 1/2, the second.
C22_Witness ==
    /\ curve_path.kind = "event"
    /\ SampleCount = 3
    /\ Len(gets) = 2
    /\ gets[1].t = Q(1, 4)
    /\ gets[2].t = Q(1, 2)
    /\ out = << Point(Q(3, 4), Q(1, 2), TRUE), Point(QInt(1), QInt(0), FALSE) >>

\* t clamped to [0, 1].
Clamped(t) == IF t[1] < 0 THEN QInt(0) ELSE IF t[1] > t[2] THEN QInt(1) ELSE t

\* The number of elements of the array of a trace, and the indices a call
\* get(t) reads it at.
TraceLen(self) ==
    IF self.kind = "event" THEN Len(self.events) ELSE Len(self.points)

IndicesRead(self, t) ==
    IF self.kind = "event" THEN EventTrace_get_indices(self, t)
    ELSE BitmapTrace_get_indices(self, t)

\* C23: for both kinds of trace, a call get(t) appends what a call with t
\* clamped to [0, 1] appends (so a t outside [0, 1] gives the result at the
\* nearer end), reads the array of the trace inside its bounds only, and
\* returns the number of points it appended, which is 0, 1 or 2.
C23_GetClampsT ==
    \A c \in DOMAIN gets :
        /\ Appended(c) = Trace_get(trace(curve_path), Clamped(gets[c].t))
        /\ IndicesRead(curve[1], gets[c].t) \subseteq 0..(TraceLen(curve[1]) - 1)
        /\ gets[c].ret = Len(Appended(c))
        /\ gets[c].ret \in { 0, 1, 2 }
        /\ Len(out) = gets[Len(gets)].before + gets[Len(gets)].ret

\* C23 witness: the trace of an image with two or more ink pixels was sampled
\* at t = -1/2, which gave the two points of the first ink pixel, and at
\* t = 3/2, which gave none.
C23_Witness ==
    /\ curve_path.kind = "bitmap"
    /\ Len(gets) = 2
    /\ Len(curve[1].points) >= 2
    /\ gets[1].t = Q(-1, 2)
    /\ gets[1].ret = 2
    /\ gets[2].t = Q(3, 2)
    /\ gets[2].ret = 0
    /\ out = << Point(curve[1].points[1][1], curve[1].points[1][2], TRUE),
                Point(curve[1].points[1][1], curve[1].points[1][2], FALSE) >>

\* A step is a call of get.
SampleStep == Len(gets') = Len(gets) + 1

InkPixels ==
    { px \in DOMAIN curve_path.image : curve_path.image[px] = 0 }

\* The ink pixel with m ink pixels before it in column-major order: those of
\* a smaller x, and those of the same x and a smaller y.
InkPixel(m) ==
    CHOOSE px \in InkPixels :
        Cardinality({ q \in InkPixels :
                          q[1] < px[1] \/ (q[1] = px[1] /\ q[2] < px[2]) }) = m

\* The two points of an ink pixel: at x / width and y / height, touching and
\* then not touching.
Dab(px) ==
    << [x |-> Q(px[1], curve_path.width), y |-> Q(px[2], curve_path.height),
        touch |-> TRUE],
       [x |-> Q(px[1], curve_path.width), y |-> Q(px[2], curve_path.height),
        touch |-> FALSE] >>

\* C25: every call get(t), t >= 0, on the trace of an image with `count` ink
\* pixels appends, when floor(t * count) < count, exactly two points at the
\* normalized coordinate of ink pixel number floor(t * count) in column-major
\* order, the first touching and the second not, and returns 2; otherwise (at
\* t >= 1, or when count = 0) it appends nothing and returns 0.  (For t < 0 the
\* ink pixel is number 0.)
C25_ImageTraceDabs ==
    curve_path.kind = "bitmap" =>
        \A c \in DOMAIN gets :
            LET count == Cardinality(InkPixels)
                t == gets[c].t
                m == IF t[1] < 0 THEN 0 ELSE (t[1] * count) \div t[2]
            IN  /\ Len(curve[1].points) = count
                /\ IF m < count
                   THEN /\ Appended(c) = Dab(InkPixel(m))
                        /\ gets[c].ret = 2
                   ELSE /\ Appended(c) = << >>
                        /\ gets[c].ret = 0
                /\ (t = QInt(1) \/ count = 0) => Appended(c) = << >>

\* C25 witness: the trace of an image two pixels wide and two high, with ink
\* at (0, 1) and (1, 0) only, was sampled at t = 1/2, which gave the two points
\* of the pixel (1, 0), and at t = 1, which gave none.
C25_Witness ==
    /\ curve_path.kind = "bitmap"
    /\ curve_path.width = 2
    /\ curve_path.height = 2
    /\ InkPixels = { << 0, 1 >>, << 1, 0 >> }
    /\ Len(gets) = 2
    /\ gets[1].t = Q(1, 2)
    /\ gets[2].t = QInt(1)
    /\ gets[2].ret = 0
    /\ out = << Point(Q(1, 2), QInt(0), TRUE), Point(Q(1, 2), QInt(0), FALSE) >>

(***************************************************************************)
(* Playback::map on any target area and any point of the unit square.      *)
(***************************************************************************)
\* The positions of the top left corner of a target, on either axis: left of,
\* at and right of the origin of the primary monitor (ScreenArea.x is an i32).
MapOrigins == { -MaxW, 0, MaxW }

\* The target areas: any origin, any width and height, 0 included.
MapTargets ==
    { [x |-> o[1], y |-> o[2], width |-> size[1], height |-> size[2]] :
          o \in MapOrigins \X MapOrigins, size \in (0..MaxW) \X (0..MaxH) }

\* The points of the unit square given to map.
MapPoints == { Point(p[1], p[2], p[3]) : p \in Coords \X Coords \X BOOLEAN }

\* self.map(point), for a Playback of the given target.
Map_point(target, point) ==
    /\ mapped = << >>
    /\ \E self \in { [path |-> EventPath_new, target |-> target, delta |-> 0,
                     steps |-> 1] } :
           mapped' = << [target |-> target, point |-> point,
                         screen |-> map_screen(self, point),
                         pos |-> map(self, point)] >>
    /\ UNCHANGED not_map_vars

InitMap ==
    /\ mapped = << >>
    /\ MOUSE_LOCK = FALSE
    /\ pc = [c \in Calls |-> "idle"]
    /\ playback = [c \in Calls |-> NoPlayback]
    /\ x = [c \in Calls |-> QInt(0)]
    /\ pressed = [c \in Calls |-> FALSE]
    /\ tracev = [c \in Calls |-> NoTrace]
    /\ buffer = [c \in Calls |-> << >>]
    /\ iter = [c \in Calls |-> 0]
    /\ sent = [c \in Calls |-> << >>]
    /\ drained = [c \in Calls |-> << >>]
    /\ sampled = [c \in Calls |-> << >>]
    /\ noticed = [c \in Calls |-> FALSE]
    /\ canvas = IdleCanvas
    /\ canvas_panic = FALSE
    /\ canvas_ops = << >>
    /\ canvas_nops = 0
    /\ target_pointer_width = 64
    /\ constructed = << >>
    /\ event_path = EventPath_new
    /\ path_log = << >>
    /\ path_ret = << >>
    /\ curve_path = EventPath_new
    /\ curve = << >>
    /\ out = << >>
    /\ gets = << >>
    /\ exported = << >>
    /\ queue = << >>
    /\ locked = FALSE
    /\ reports = 0
    /\ stopped = FALSE
    /\ canvas_log = << >>
    /\ display = << >>
    /\ handled = 0
    /\ dropped = { }
    /\ visible = FALSE
    /\ now = 0
    /\ timer1 = [c \in Calls |-> 0]
    /\ sent_at = [c \in Calls |-> 0]
    /\ requested = << >>
    /\ area_pc = "none"
    /\ area_notices = 0
    /\ presses = 0
    /\ bitmap_path = NoBitmapPath
    /\ handler_queue = << >>
    /\ interface_queue = << >>
    /\ made = 0
    /\ last_result = "none"
    /\ delivered = << >>
    /\ pushed = << >>
    /\ kept = << >>
    /\ assert_failed = FALSE

NextMap ==
    \E target \in MapTargets, point \in MapPoints : Map_point(target, point)

\* Calls of map, on any target and point.
SpecMap == InitMap /\ [][NextMap]_vars

\* a <= b, for rationals.
QLessEq(a, b) == a[1] * b[2] <= b[1] * a[2]

\* The coordinate s of a screen position is inside the side of a rectangle
\* that starts at `origin` and is `size` pixels long: on one of its pixels,
\* origin .. origin + size - 1, or on the origin when size = 0.
InsideSide(s, origin, size) ==
    IF size = 0 THEN s = QInt(origin)
    ELSE QLessEq(QInt(origin), s) /\ QLessEq(s, QInt(origin + size - 1))

\* C28: map places every point of the unit square inside the target
\* rectangle, before the conversion to absolute pointer units: (0, 0) on its
\* origin, (1, 1) on (target.x + width - 1, target.y + height - 1), and a
\* rectangle of width or height 0 takes every point to its origin on that
\* axis; the pair returned is that screen position in units of 1/65535 of the
\* monitor, truncated.
C28_MapStaysInsideTarget ==
    \A m \in Range(mapped) :
        LET a == m.target
        IN  /\ InsideSide(m.screen[1], a.x, a.width)
            /\ InsideSide(m.screen[2], a.y, a.height)
            /\ m.point.x = QInt(0) => m.screen[1] = QInt(a.x)
            /\ m.point.y = QInt(0) => m.screen[2] = QInt(a.y)
            /\ (m.point.x = QInt(1) /\ a.width > 0) =>
                   m.screen[1] = QInt(a.x + a.width - 1)
            /\ (m.point.y = QInt(1) /\ a.height > 0) =>
                   m.screen[2] = QInt(a.y + a.height - 1)
            /\ m.pos[1] = QTrunc(Q(m.screen[1][1] * AbsRange,
                                   m.screen[1][2] * MonitorWidth))
            /\ m.pos[2] = QTrunc(Q(m.screen[2][1] * AbsRange,
                                   m.screen[2][2] * MonitorHeight))

\* C28 witness: the point (1, 1) was mapped with a target of width 0 and of
\* the largest height, left of the monitor's origin: it is on the origin of
\* the target horizontally and on its last row vertically.
C28_Witness ==
    /\ mapped # << >>
    /\ mapped[1].target.width = 0
    /\ mapped[1].target.height = MaxH
    /\ mapped[1].target.x < 0
    /\ mapped[1].point.x = QInt(1)
    /\ mapped[1].point.y = QInt(1)
    /\ mapped[1].screen = << QInt(mapped[1].target.x),
                             QInt(mapped[1].target.y + MaxH - 1) >>

(***************************************************************************)
(* One EventCanvas written by set and exported by to_bitmap.               *)
(***************************************************************************)
\* canvas.to_bitmap()
Canvas_to_bitmap ==
    /\ exported' = << [before |-> canvas, result |-> EventCanvas_to_bitmap(canvas)] >>
    /\ UNCHANGED not_export_vars

RECURSIVE InOrder(_)
\* The pixels of a set, one after the other.
InOrder(pixels) ==
    IF pixels = {} THEN << >>
    ELSE LET px == CHOOSE p \in pixels : TRUE
         IN  << px >> \o InOrder(pixels \ { px })

\* The sets of up to MaxOps pixels of a canvas of the given width and height.
InkSets(width, height) ==
    { pixels \in SUBSET ((0..(width - 1)) \X (0..(height - 1))) :
          Cardinality(pixels) <= MaxOps }

\* A canvas of any size on which set(x, y, true) was called for each pixel
\* of a set.
InitBitmap ==
    /\ \E width \in 1..MaxW, height \in 1..MaxH :
           \E pixels \in InkSets(width, height) :
               /\ canvas = SetAll(EventCanvas_new(width, height), InOrder(pixels)).canvas
               /\ canvas_nops = Cardinality(pixels)
    /\ canvas_panic = FALSE
    /\ canvas_ops = << >>
    /\ exported = << >>
    /\ MOUSE_LOCK = FALSE
    /\ pc = [c \in Calls |-> "idle"]
    /\ playback = [c \in Calls |-> NoPlayback]
    /\ x = [c \in Calls |-> QInt(0)]
    /\ pressed = [c \in Calls |-> FALSE]
    /\ tracev = [c \in Calls |-> NoTrace]
    /\ buffer = [c \in Calls |-> << >>]
    /\ iter = [c \in Calls |-> 0]
    /\ sent = [c \in Calls |-> << >>]
    /\ drained = [c \in Calls |-> << >>]
    /\ sampled = [c \in Calls |-> << >>]
    /\ noticed = [c \in Calls |-> FALSE]
    /\ target_pointer_width = 64
    /\ constructed = << >>
    /\ event_path = EventPath_new
    /\ path_log = << >>
    /\ path_ret = << >>
    /\ curve_path = EventPath_new
    /\ curve = << >>
    /\ out = << >>
    /\ gets = << >>
    /\ mapped = << >>
    /\ queue = << >>
    /\ locked = FALSE
    /\ reports = 0
    /\ stopped = FALSE
    /\ canvas_log = << >>
    /\ display = << >>
    /\ handled = 0
    /\ dropped = { }
    /\ visible = FALSE
    /\ now = 0
    /\ timer1 = [c \in Calls |-> 0]
    /\ sent_at = [c \in Calls |-> 0]
    /\ requested = << >>
    /\ area_pc = "none"
    /\ area_notices = 0
    /\ presses = 0
    /\ bitmap_path = NoBitmapPath
    /\ handler_queue = << >>
    /\ interface_queue = << >>
    /\ made = 0
    /\ last_result = "none"
    /\ delivered = << >>
    /\ pushed = << >>
    /\ kept = << >>
    /\ assert_failed = FALSE

NextBitmap == Canvas_to_bitmap

\* One canvas of any size with pixels set, and a call of to_bitmap.
SpecBitmap == InitBitmap /\ [][NextBitmap]_vars

\* The colour a decoder of the bitmap reads for the pixel (px, py), as
\* << R, G, B >>: row py from the top is row height - 1 - py of the pixel
\* array, and the bytes of a pixel are B, G, R.
Decoded(bitmap, px, py) ==
    LET at == (bitmap.height - 1 - py) * BmpRowBytes(bitmap.width) + 3 * px
    IN  << bitmap.data[at + 3], bitmap.data[at + 2], bitmap.data[at + 1] >>

\* C29: to_bitmap returns, without a panic, a 24-bit bitmap of the width and
\* the height of the canvas in which the pixel (x, y) is black when
\* get(x, y) = Some(true) and white otherwise, for every pixel of the canvas;
\* it calls get for pixels of the canvas only and leaves the canvas as it was.
C29_BitmapShowsSetPixels ==
    [][\A e \in Range(exported') :
           /\ ~e.result.panic
           /\ \A bitmap \in Range(e.result.bitmap) :
                  /\ bitmap.width = e.before.width
                  /\ bitmap.height = e.before.height
                  /\ bitmap.bits_per_pixel = 24
                  /\ Len(bitmap.data) = BmpRowBytes(bitmap.width) * bitmap.height
                  /\ \A px \in Pixels(e.before) :
                         Decoded(bitmap, px[1], px[2]) =
                             IF EventCanvas_get(e.before, px[1], px[2]) = << TRUE >>
                             THEN << 0, 0, 0 >> ELSE << 255, 255, 255 >>
           /\ to_bitmap_reads(e.before) \subseteq Pixels(e.before)
           /\ \A px \in to_bitmap_reads(e.before) :
                  EventCanvas_get(e.before, px[1], px[2]) # << >>
           /\ exported' # exported => canvas' = canvas /\ canvas = e.before]_vars

\* C29 witness: to_bitmap was called on a canvas three pixels wide and two
\* high (rows of 9 bytes padded to 12) with the pixels (2, 0) and (0, 1) set
\* and no other, and the bitmap shows those two black.
C29_Witness ==
    /\ exported # << >>
    /\ canvas.width = 3
    /\ canvas.height = 2
    /\ exported[1].before = canvas
    /\ SetPixels(canvas) = { << 2, 0 >>, << 0, 1 >> }
    /\ ~exported[1].result.panic
    /\ Decoded(exported[1].result.bitmap[1], 2, 0) = << 0, 0, 0 >>
    /\ Decoded(exported[1].result.bitmap[1], 0, 1) = << 0, 0, 0 >>
    /\ Decoded(exported[1].result.bitmap[1], 0, 0) = << 255, 255, 255 >>
    /\ Len(exported[1].result.bitmap[1].data) = 24

(***************************************************************************)
(* One playback against a clock: `now` is the reading of Instant::now(),   *)
(* in ticks; delta is in ticks, so dt = delta / steps is a fraction of a   *)
(* tick and `elapsed < dt` is `elapsed * steps < delta`.  The rounding of  *)
(* Duration::div_f64 to whole nanoseconds is not modelled.                 *)
(***************************************************************************)
\* The Playback values with a delta that is not zero.
PacedPlaybacks ==
    { [self EXCEPT !.delta = delta] : self \in Playbacks, delta \in 1..MaxDelta }

\* The one call of the paced run.
Paced_call == \E self \in PacedPlaybacks : play_and_notify(1, self)

\* Time passes, between any two statements of the thread.
Tick ==
    /\ now < MaxNow
    /\ now' = now + 1
    /\ UNCHANGED << timer1, sent_at, playback_vars, not_thread_vars >>

InitPaced ==
    /\ canvas = IdleCanvas
    /\ canvas_panic = FALSE
    /\ canvas_ops = << >>
    /\ canvas_nops = 0
    /\ MOUSE_LOCK = FALSE
    /\ pc = [c \in Calls |-> "idle"]
    /\ playback = [c \in Calls |-> NoPlayback]
    /\ x = [c \in Calls |-> QInt(0)]
    /\ pressed = [c \in Calls |-> FALSE]
    /\ tracev = [c \in Calls |-> NoTrace]
    /\ buffer = [c \in Calls |-> << >>]
    /\ iter = [c \in Calls |-> 0]
    /\ sent = [c \in Calls |-> << >>]
    /\ drained = [c \in Calls |-> << >>]
    /\ sampled = [c \in Calls |-> << >>]
    /\ noticed = [c \in Calls |-> FALSE]
    /\ target_pointer_width = 64
    /\ constructed = << >>
    /\ event_path = EventPath_new
    /\ path_log = << >>
    /\ path_ret = << >>
    /\ curve_path = EventPath_new
    /\ curve = << >>
    /\ out = << >>
    /\ gets = << >>
    /\ mapped = << >>
    /\ exported = << >>
    /\ queue = << >>
    /\ locked = FALSE
    /\ reports = 0
    /\ stopped = FALSE
    /\ canvas_log = << >>
    /\ display = << >>
    /\ handled = 0
    /\ dropped = { }
    /\ visible = FALSE
    /\ now = 0
    /\ timer1 = [c \in Calls |-> 0]
    /\ sent_at = [c \in Calls |-> 0]
    /\ requested = << >>
    /\ area_pc = "none"
    /\ area_notices = 0
    /\ presses = 0
    /\ bitmap_path = NoBitmapPath
    /\ handler_queue = << >>
    /\ interface_queue = << >>
    /\ made = 0
    /\ last_result = "none"
    /\ delivered = << >>
    /\ pushed = << >>
    /\ kept = << >>
    /\ assert_failed = FALSE

NextPaced ==
    \/ Paced_call
    \/ Thread_begin(1)
    \/ Loop_sample(1)
    \/ Point_timer(1)
    \/ Point_send(1)
    \/ Point_spin(1)
    \/ Finish_button_up(1)
    \/ Finish_unlock(1)
    \/ Finish_notice(1)
    \/ Tick

\* One playback and the clock.
SpecPaced == InitPaced /\ [][NextPaced]_vars

\* `d` is at least dt = delta / steps of call c.
AtLeastDt(c, d) == d * playback[c].steps >= playback[c].delta

\* The step is the SendInput of a point of call c, not the first of its run.
LaterEmission(c) ==
    /\ pc[c] = "send"
    /\ pc'[c] = "spin"
    /\ Len(drained[c]) >= 1

\* The step starts a micro-step of call c, not the first of its run.
LaterStart(c) ==
    /\ pc[c] = "point"
    /\ pc'[c] = "send"
    /\ Len(drained[c]) >= 1

\* C27 as claimed: every pointer-move emission of a run after the first comes
\* at least dt after the emission before it.
C27_EmissionsApartByDt ==
    [][\A c \in Calls : LaterEmission(c) => AtLeastDt(c, now - sent_at[c])]_vars

\* C27 amended: the thread leaves the wait of a micro-step (for the next
\* point, the next sample or the final button-up) only when dt has elapsed
\* since timer1, the start of that micro-step; so successive micro-steps start
\* at least dt apart, and an emission comes at or after the start of its own
\* micro-step, at least dt after the start of the one before.
C27_StepsStartApartByDt ==
    [][\A c \in Calls :
          /\ (pc[c] = "spin" /\ pc'[c] # "spin") =>
                 AtLeastDt(c, now - timer1[c])
          /\ LaterStart(c) => AtLeastDt(c, timer1'[c] - timer1[c])
          /\ (pc[c] = "send" /\ pc'[c] = "spin") =>
                 /\ sent_at'[c] >= timer1[c]
                 /\ sent_at'[c] = now
          /\ (pc[c] \in { "loop", "point", "finish" } /\ Len(drained[c]) >= 1) =>
                 AtLeastDt(c, now - timer1[c])]_vars

\* C27 witness: a second micro-step of a run with dt = 2 has started, two
\* ticks after the first, and the first point has been emitted.
C27_Witness ==
    /\ pc[1] = "send"
    /\ playback[1].delta = 2
    /\ playback[1].steps = 1
    /\ playback[1].path.kind = "bitmap"
    /\ Len(drained[1]) = 1
    /\ timer1[1] >= 2

(***************************************************************************)
(* ManagementWindow (hc/src/window.rs): the device queue, the live canvas  *)
(* and path, and the handlers of the window's event loop.  The handlers    *)
(* run one at a time on the window's thread; the device and the playback   *)
(* threads run beside them.  The k-th event taken from the queue carries   *)
(* the k-th reading of Instant::now() (stu/src/report.rs), modelled as k.  *)
(* Pacing is left out of this specification: delta is 0 and the clock      *)
(* stands still.                                                           *)
(***************************************************************************)
\* The canvas made by ManagementWindow::new for the device's screen.
WindowCanvas == EventCanvas_new(MaxW, MaxH)

\* The events the k-th pen report is decoded to: at a corner of the screen,
\* touching or not.
ReportedEvents(k) ==
    { Event(k, ex, QSub(QInt(1), ex), touching) :
          ex \in { QInt(0), QInt(1) }, touching \in BOOLEAN }

\* The Playback built by on_paint_pressed from a clone of the path, its
\* 10000 steps scaled to PaintSteps.
PaintPlayback(path) ==
    [path |-> path,
     target |-> [x |-> 10, y |-> 50, width |-> 1316, height |-> 668],
     delta |-> 0,
     steps |-> PaintSteps]

\* The fields of the window the handlers work on.
WindowState ==
    [canvas |-> canvas, panic |-> canvas_panic, path |-> event_path,
     canvas_log |-> canvas_log, path_log |-> path_log, queue |-> queue,
     locked |-> locked, display |-> display, stopped |-> stopped,
     dropped |-> dropped, dirty |-> FALSE]

\* The body of update's loop with path.process outside `if !*locked`.
update_event_path_always(w, event) ==
    LET fed == IF w.locked THEN [w EXCEPT !.dropped = @ \cup { event }]
               ELSE LET r == EventCanvas_process(w.canvas, event)
                    IN  [w EXCEPT !.canvas = r.canvas, !.panic = r.panic,
                                  !.canvas_log = Append(@, event),
                                  !.dirty = TRUE]
    IN  IF fed.panic THEN fed
        ELSE [fed EXCEPT !.path = EventPath_process(@, event).path,
                         !.path_log = Append(@, event)]

\* The body of update's loop for Ok(event): unless locked, canvas.process,
\* then path.process (not reached when canvas.process panics), dirty = true.
update_event(w, event) ==
    IF w.locked THEN [w EXCEPT !.dropped = @ \cup { event }]
    ELSE LET r == EventCanvas_process(w.canvas, event)
         IN  IF r.panic
             THEN [w EXCEPT !.canvas = r.canvas, !.panic = TRUE,
                            !.canvas_log = Append(@, event)]
             ELSE [w EXCEPT !.canvas = r.canvas,
                            !.canvas_log = Append(@, event),
                            !.path = EventPath_process(@, event).path,
                            !.path_log = Append(@, event),
                            !.dirty = TRUE]

RECURSIVE update_loop(_, _)
\* update's loop over the events try_recv returns, in order.
update_loop(w, events) ==
    IF events = << >> \/ w.panic THEN w
    ELSE update_loop(update_event(w, events[1]), Tail(events))

\* update that stops taking events from the queue while the window is
\* locked and leaves them for the next update.
update_deferring(w, force_repaint, taken, failed) ==
    LET n == IF w.locked THEN 0 ELSE taken
        fed == update_loop([w EXCEPT !.dirty = FALSE,
                               !.queue = SubSeq(@, n + 1, Len(@))],
                           SubSeq(w.queue, 1, n))
    IN  IF fed.panic THEN fed
        ELSE IF failed THEN [fed EXCEPT !.stopped = TRUE]
        ELSE IF fed.dirty \/ force_repaint
        THEN [fed EXCEPT !.display = EventCanvas_to_bitmap(fed.canvas).bitmap]
        ELSE fed

\* ManagementWindow::update: try_recv returns the first `taken` events of the
\* queue and then Failed (`failed`) or Empty; the display is repainted after
\* Empty when an event was processed or force_repaint is set.
update(w, force_repaint, taken, failed) ==
    LET fed == update_loop([w EXCEPT !.dirty = FALSE,
                               !.queue = SubSeq(@, taken + 1, Len(@))],
                           SubSeq(w.queue, 1, taken))
    IN  IF fed.panic THEN fed
        ELSE IF failed THEN [fed EXCEPT !.stopped = TRUE]
        ELSE IF fed.dirty \/ force_repaint
        THEN [fed EXCEPT !.display = EventCanvas_to_bitmap(fed.canvas).bitmap]
        ELSE fed

\* on_clear_pressed that clears the canvas and leaves the path.
on_clear_pressed_canvas_only(w, inking_off, clear, inking_on, taken, failed) ==
    IF ~inking_off THEN [w EXCEPT !.stopped = TRUE]
    ELSE LET cleared == [w EXCEPT !.canvas = EventCanvas_clear(@),
                                  !.canvas_log = << >>]
         IN  IF ~clear \/ ~inking_on THEN [cleared EXCEPT !.stopped = TRUE]
             ELSE update(cleared, TRUE, taken, failed)

\* ManagementWindow::on_clear_pressed; inking_off, clear and inking_on tell
\* whether the three device commands succeed.
on_clear_pressed(w, inking_off, clear, inking_on, taken, failed) ==
    IF ~inking_off THEN [w EXCEPT !.stopped = TRUE]
    ELSE LET cleared == [w EXCEPT !.canvas = EventCanvas_clear(@),
                                  !.canvas_log = << >>,
                                  !.path = EventPath_clear(@),
                                  !.path_log = << >>]
         IN  IF ~clear \/ ~inking_on THEN [cleared EXCEPT !.stopped = TRUE]
             ELSE update(cleared, TRUE, taken, failed)

\* The window's fields after a handler, from the record it computed.
WindowBecomes(w) ==
    /\ canvas' = w.canvas
    /\ canvas_panic' = w.panic
    /\ event_path' = w.path
    /\ canvas_log' = w.canvas_log
    /\ path_log' = w.path_log
    /\ queue' = w.queue
    /\ display' = w.display
    /\ stopped' = w.stopped
    /\ dropped' = w.dropped

\* The window's thread dispatches handlers.
Dispatching == visible /\ ~stopped /\ ~canvas_panic

\* The outcomes try_recv can have during one update: how many events are
\* taken, and whether Failed ends the loop.
Taken == { << Len(queue), FALSE >> } \cup { << k, TRUE >> : k \in 0..Len(queue) }

\* The device reports pen data; the report waits in the interface queue.
Device_report ==
    /\ reports < MaxReports
    /\ \E event \in ReportedEvents(reports + 1) : queue' = Append(queue, event)
    /\ reports' = reports + 1
    /\ UNCHANGED << locked, stopped, canvas_log, display, handled, dropped, visible,
                    playback_vars, canvas_vars, new_vars, path_vars, trace_vars,
                    map_vars, export_vars, aux_vars, pace_vars >>

\* ManagementWindow::init: clear the device, enable inking, update(true),
\* start the timer and show the window.
Window_init ==
    /\ ~visible /\ ~stopped
    /\ \E clear \in BOOLEAN, inking_on \in BOOLEAN, t \in Taken :
           IF ~clear \/ ~inking_on
           THEN /\ WindowBecomes([WindowState EXCEPT !.stopped = TRUE])
                /\ UNCHANGED visible
           ELSE \E w \in { update(WindowState, TRUE, t[1], t[2]) } :
                    /\ WindowBecomes(w)
                    /\ visible' = TRUE
    /\ UNCHANGED << locked, reports, handled, canvas_ops, canvas_nops, path_ret,
                    playback_vars, new_vars, trace_vars, map_vars, export_vars, aux_vars,
                    pace_vars >>

\* OnTimerTick: on_update.
Window_on_update ==
    /\ Dispatching
    /\ \E t \in Taken : WindowBecomes(update(WindowState, FALSE, t[1], t[2]))
    /\ UNCHANGED << locked, reports, handled, visible, canvas_ops, canvas_nops,
                    path_ret, playback_vars, new_vars, trace_vars, map_vars,
                    export_vars, aux_vars, pace_vars >>

\* OnButtonClick of the clear button, enabled while the window is unlocked.
Window_on_clear_pressed ==
    /\ Dispatching
    /\ ~locked
    /\ \E inking_off \in BOOLEAN, clear \in BOOLEAN, inking_on \in BOOLEAN,
          t \in Taken :
           WindowBecomes(on_clear_pressed(WindowState, inking_off, clear,
                                          inking_on, t[1], t[2]))
    /\ UNCHANGED << locked, reports, handled, visible, canvas_ops, canvas_nops,
                    path_ret, playback_vars, new_vars, trace_vars, map_vars,
                    export_vars, aux_vars, pace_vars >>

\* Window_on_paint_pressed with a playback button that lock() leaves enabled.
Window_on_paint_pressed_enabled(c) ==
    /\ Dispatching
    /\ locked' = TRUE
    /\ play_and_notify_entry(c, PaintPlayback(event_path))
    /\ UNCHANGED << queue, reports, stopped, canvas_log, display, handled, dropped,
                    visible, canvas_vars, new_vars, path_vars, trace_vars,
                    map_vars, export_vars, aux_vars >>

\* OnButtonClick of the playback button, enabled while the window is
\* unlocked: lock(), then play a clone of the path.
Window_on_paint_pressed(c) ==
    /\ Dispatching
    /\ ~locked
    /\ locked' = TRUE
    /\ play_and_notify_entry(c, PaintPlayback(event_path))
    /\ UNCHANGED << queue, reports, stopped, canvas_log, display, handled, dropped,
                    visible, canvas_vars, new_vars, path_vars, trace_vars,
                    map_vars, export_vars, aux_vars >>

\* OnNotice of display_paint_done: on_paint_done, once for each notice.
Window_on_paint_done ==
    /\ Dispatching
    /\ Cardinality({ c \in Calls : noticed[c] }) > handled
    /\ handled' = handled + 1
    /\ locked' = FALSE
    /\ UNCHANGED << queue, reports, stopped, canvas_log, display, visible,
                    dropped,
                    playback_vars, canvas_vars, new_vars, path_vars, trace_vars,
                    map_vars, export_vars, aux_vars, pace_vars >>

\* OnWindowClose: on_exit: on_clear_pressed, then stop the dispatch.
Window_on_exit ==
    /\ Dispatching
    /\ \E inking_off \in BOOLEAN, clear \in BOOLEAN, inking_on \in BOOLEAN,
          t \in Taken :
           WindowBecomes([on_clear_pressed(WindowState, inking_off, clear,
                                           inking_on, t[1], t[2])
                              EXCEPT !.stopped = TRUE])
    /\ UNCHANGED << locked, reports, handled, visible, canvas_ops, canvas_nops,
                    path_ret, playback_vars, new_vars, trace_vars, map_vars,
                    export_vars, aux_vars, pace_vars >>

InitWindow ==
    /\ canvas = WindowCanvas
    /\ canvas_panic = FALSE
    /\ canvas_ops = << >>
    /\ canvas_nops = 0
    /\ MOUSE_LOCK = FALSE
    /\ pc = [c \in Calls |-> "idle"]
    /\ playback = [c \in Calls |-> NoPlayback]
    /\ x = [c \in Calls |-> QInt(0)]
    /\ pressed = [c \in Calls |-> FALSE]
    /\ tracev = [c \in Calls |-> NoTrace]
    /\ buffer = [c \in Calls |-> << >>]
    /\ iter = [c \in Calls |-> 0]
    /\ sent = [c \in Calls |-> << >>]
    /\ drained = [c \in Calls |-> << >>]
    /\ sampled = [c \in Calls |-> << >>]
    /\ noticed = [c \in Calls |-> FALSE]
    /\ target_pointer_width = 64
    /\ constructed = << >>
    /\ event_path = EventPath_new
    /\ path_log = << >>
    /\ path_ret = << >>
    /\ curve_path = EventPath_new
    /\ curve = << >>
    /\ out = << >>
    /\ gets = << >>
    /\ mapped = << >>
    /\ exported = << >>
    /\ queue = << >>
    /\ locked = FALSE
    /\ reports = 0
    /\ stopped = FALSE
    /\ canvas_log = << >>
    /\ display = << >>
    /\ handled = 0
    /\ dropped = { }
    /\ visible = FALSE
    /\ now = 0
    /\ timer1 = [c \in Calls |-> 0]
    /\ sent_at = [c \in Calls |-> 0]
    /\ requested = << >>
    /\ area_pc = "none"
    /\ area_notices = 0
    /\ presses = 0
    /\ bitmap_path = NoBitmapPath
    /\ handler_queue = << >>
    /\ interface_queue = << >>
    /\ made = 0
    /\ last_result = "none"
    /\ delivered = << >>
    /\ pushed = << >>
    /\ kept = << >>
    /\ assert_failed = FALSE

NextWindow ==
    \/ Device_report
    \/ Window_init
    \/ Window_on_update
    \/ Window_on_clear_pressed
    \/ \E c \in Calls : Window_on_paint_pressed(c)
    \/ Window_on_paint_done
    \/ Window_on_exit
    \/ \E c \in Calls : Thread_begin(c)
    \/ \E c \in Calls : Loop_sample(c)
    \/ \E c \in Calls : Point_timer(c)
    \/ \E c \in Calls : Point_send(c)
    \/ \E c \in Calls : Point_spin(c)
    \/ \E c \in Calls : Finish_button_up(c)
    \/ \E c \in Calls : Finish_unlock(c)
    \/ \E c \in Calls : Finish_notice(c)

\* The window, the device and the playback threads.
SpecWindow == InitWindow /\ [][NextWindow]_vars

\* The pixels the touching events of `events` map to on the canvas.
TouchedPixels(self, events) ==
    { MappedPixel(self, events[k]) : k \in { j \in 1..Len(events) : events[j].touching } }

\* C30: the events given to the canvas since its last clear are those given
\* to the path since its last clear, in the same order; the path holds
\* exactly these events, and the canvas shows every touching one of them and
\* is blank when there are none.
C30_CanvasAndPathShareSamples ==
    /\ canvas_log = path_log
    /\ event_path = PathOf(EventPath_new, canvas_log)
    /\ TouchedPixels(canvas, path_log) \subseteq SetPixels(canvas)
    /\ TouchedPixels(canvas, canvas_log) = { } => SetPixels(canvas) = { }

\* C30 witness: the canvas and the path were fed the first event, a touching
\* one; the second was taken from the queue and dropped while the window was
\* locked for a playback; the window is unlocked again and the display shows
\* the canvas.
C30_Witness ==
    /\ handled = 1
    /\ ~locked
    /\ reports = 2
    /\ queue = << >>
    /\ Len(canvas_log) = 1
    /\ canvas_log[1].time = 1
    /\ canvas_log[1].touching
    /\ Cardinality(DOMAIN event_path.events) = 1
    /\ SetPixels(canvas) # { }
    /\ display = EventCanvas_to_bitmap(canvas).bitmap

(***************************************************************************)
(* A caller that keeps a live canvas and path, starts one Playback from a  *)
(* clone of the path as on_paint_pressed does, and goes on processing      *)
(* events and clearing while the playback runs.                            *)
(***************************************************************************)
\* The INPUT sent for `point` when `pressed` is isPressed.
PointInput(self, point, isPressed) ==
    LET pos == map(self, point)
    IN  [dx |-> pos[1], dy |-> pos[2],
         dwFlags |-> { "ABSOLUTE", "MOVE" } \cup ButtonFlag(isPressed, point.touch)]

RECURSIVE drain_loop(_, _, _, _)
\* `for point in buffer.drain(..)`: the INPUTs sent, and x and pressed after.
drain_loop(self, points, xv, isPressed) ==
    IF points = << >> THEN [inputs |-> << >>, x |-> xv, pressed |-> isPressed]
    ELSE LET rest == drain_loop(self, Tail(points), Advance(xv, self.steps),
                                PressedAfter(isPressed, points[1].touch))
         IN  [rest EXCEPT !.inputs =
                  << PointInput(self, points[1], isPressed) >> \o @]

RECURSIVE steps_loop(_, _, _, _, _)
\* `for _ in 0..steps` from iteration `step` on, and the final button-up:
\* the INPUTs sent.
steps_loop(self, tr, step, xv, isPressed) ==
    LET points == IF step >= self.steps THEN << >> ELSE Trace_get(tr, xv)
    IN  IF points = << >>
        THEN << [dx |-> 0, dy |-> 0, dwFlags |-> { "LEFTUP" }] >>
        ELSE LET r == drain_loop(self, points, xv, isPressed)
             IN  r.inputs \o steps_loop(self, tr, step + 1, r.x, r.pressed)

\* The INPUTs the thread of a Playback sends, start to end.
thread_inputs(self) == steps_loop(self, trace(self.path), 0, QInt(0), FALSE)

\* canvas.process(event); path.process(event) on the live canvas and path.
Live_process ==
    /\ ~canvas_panic
    /\ reports < MaxTime
    /\ \E event \in ReportedEvents(reports + 1) :
           WindowBecomes(update_event(WindowState, event))
    /\ reports' = reports + 1
    /\ UNCHANGED << locked, handled, visible, canvas_ops, canvas_nops, path_ret,
                    playback_vars, new_vars, trace_vars, map_vars, export_vars, aux_vars,
                    pace_vars >>

\* canvas.clear(); path.clear() on the live canvas and path.
Live_clear ==
    /\ ~canvas_panic
    /\ canvas' = EventCanvas_clear(canvas)
    /\ event_path' = EventPath_clear(event_path)
    /\ canvas_log' = << >>
    /\ path_log' = << >>
    /\ UNCHANGED << canvas_panic, canvas_ops, canvas_nops, path_ret, queue,
                    locked, reports, stopped, display, handled, dropped, visible,
                    playback_vars, new_vars, trace_vars, map_vars, export_vars, aux_vars,
                    pace_vars >>

\* Playback { path: path.clone(), .. }.play_and_notify(..)
Live_play ==
    /\ play_and_notify_entry(1, PaintPlayback(event_path))
    /\ UNCHANGED not_thread_vars

InitSnapshot ==
    /\ canvas = WindowCanvas
    /\ canvas_panic = FALSE
    /\ canvas_ops = << >>
    /\ canvas_nops = 0
    /\ MOUSE_LOCK = FALSE
    /\ pc = [c \in Calls |-> "idle"]
    /\ playback = [c \in Calls |-> NoPlayback]
    /\ x = [c \in Calls |-> QInt(0)]
    /\ pressed = [c \in Calls |-> FALSE]
    /\ tracev = [c \in Calls |-> NoTrace]
    /\ buffer = [c \in Calls |-> << >>]
    /\ iter = [c \in Calls |-> 0]
    /\ sent = [c \in Calls |-> << >>]
    /\ drained = [c \in Calls |-> << >>]
    /\ sampled = [c \in Calls |-> << >>]
    /\ noticed = [c \in Calls |-> FALSE]
    /\ target_pointer_width = 64
    /\ constructed = << >>
    /\ event_path = EventPath_new
    /\ path_log = << >>
    /\ path_ret = << >>
    /\ curve_path = EventPath_new
    /\ curve = << >>
    /\ out = << >>
    /\ gets = << >>
    /\ mapped = << >>
    /\ exported = << >>
    /\ queue = << >>
    /\ locked = FALSE
    /\ reports = 0
    /\ stopped = FALSE
    /\ canvas_log = << >>
    /\ display = << >>
    /\ handled = 0
    /\ dropped = { }
    /\ visible = FALSE
    /\ now = 0
    /\ timer1 = [c \in Calls |-> 0]
    /\ sent_at = [c \in Calls |-> 0]
    /\ requested = << >>
    /\ area_pc = "none"
    /\ area_notices = 0
    /\ presses = 0
    /\ bitmap_path = NoBitmapPath
    /\ handler_queue = << >>
    /\ interface_queue = << >>
    /\ made = 0
    /\ last_result = "none"
    /\ delivered = << >>
    /\ pushed = << >>
    /\ kept = << >>
    /\ assert_failed = FALSE

NextSnapshot ==
    \/ Live_process
    \/ Live_clear
    \/ Live_play
    \/ Thread_begin(1)
    \/ Loop_sample(1)
    \/ Point_timer(1)
    \/ Point_send(1)
    \/ Point_spin(1)
    \/ Finish_button_up(1)
    \/ Finish_unlock(1)
    \/ Finish_notice(1)

\* The live canvas and path and one playback of a clone of the path.
SpecSnapshot == InitSnapshot /\ [][NextSnapshot]_vars

\* `s` is the first part of `t`.
IsPrefix(s, t) == Len(s) <= Len(t) /\ s = SubSeq(t, 1, Len(s))

\* The thread of call c is between its spawn and its last statement.
Running(c) == pc[c] \notin { "idle", "panicked", "done" }

\* What call c has sent is the first part of, and at its end all of, the
\* INPUTs that follow from its own Playback.
SentFollowsFromPlayback(c) ==
    /\ IsPrefix(sent[c], thread_inputs(playback[c]))
    /\ pc[c] \in { "release", "notify", "done" } =>
           sent[c] = thread_inputs(playback[c])

\* C26: the Playback of a call holds the path as it was at the call and never
\* changes after it; every INPUT sent follows from that Playback alone,
\* whatever is processed into or cleared from the live path meanwhile; and a
\* step of the playback leaves the live path and the live canvas as they are.
C26_PlaybackOfSnapshot ==
    /\ [](\A c \in Calls : SentFollowsFromPlayback(c))
    /\ [][\A c \in Calls :
          /\ (pc[c] = "idle" /\ pc'[c] = "spawned") =>
                 playback'[c].path = event_path
          /\ pc[c] # "idle" => playback'[c] = playback[c]
          /\ (Running(c) /\ (event_path' # event_path \/ canvas' # canvas)) =>
                 /\ sent'[c] = sent[c]
                 /\ tracev'[c] = tracev[c]
          /\ pc'[c] # pc[c] => (event_path' = event_path /\ canvas' = canvas)]_vars

\* C26 witness: a playback of a path of two events is running and has sent a
\* point, and the live path is no longer the path it was started from.
C26_Witness ==
    /\ pc[1] = "spin"
    /\ Cardinality(DOMAIN playback[1].path.events) = 2
    /\ Len(sent[1]) >= 1
    /\ event_path # playback[1].path

(***************************************************************************)
(* Playback::steps is a NonZeroU32 (robot.rs:21).  A value of that type is *)
(* made by NonZeroU32::new, which gives None for 0, or by new_unchecked    *)
(* with a number that is not 0, as the two windows do with the literals    *)
(* 10000 and 5000.                                                         *)
(***************************************************************************)
\* NonZeroU32::new taking every number.
NonZeroU32_new_any(n) == << n >>

\* core::num::NonZeroU32::new: << >> is None.
NonZeroU32_new(n) == IF n = 0 THEN << >> ELSE << n >>

\* The step counts the windows give to new_unchecked (window.rs:1259,
\* window/bitmap.rs:240).
WindowSteps == { 10000, 5000 }

\* The numbers a step count is asked for.
RequestedSteps == (0..MaxSteps) \cup WindowSteps

\* The paths played with the step counts of the windows: those whose trace
\* has no point, so that the run ends at its first sample.
PointlessPaths ==
    { path \in PlayedEventPaths \cup PlayedBitmapPaths :
          Trace_get(trace(path), QInt(0)) = << >> }

\* A Playback is configured with the step count NonZeroU32::new(n) and
\* started; with None there is no Playback to start.
Configure(n, path) ==
    /\ requested = << >>
    /\ n \in WindowSteps => path \in PointlessPaths
    /\ requested' = << n >>
    /\ LET steps == NonZeroU32_new(n)
       IN  IF steps = << >>
           THEN UNCHANGED << playback_vars, pace_vars >>
           ELSE play_and_notify_entry(1,
                    [path |-> path, target |-> PlayedTarget, delta |-> 0,
                     steps |-> steps[1]])
    /\ UNCHANGED << canvas_vars, new_vars, path_vars, trace_vars, map_vars,
                    export_vars, window_vars, bitmap_vars, queue_vars >>

InitSteps ==
    /\ canvas = IdleCanvas
    /\ canvas_panic = FALSE
    /\ canvas_ops = << >>
    /\ canvas_nops = 0
    /\ MOUSE_LOCK = FALSE
    /\ pc = [c \in Calls |-> "idle"]
    /\ playback = [c \in Calls |-> NoPlayback]
    /\ x = [c \in Calls |-> QInt(0)]
    /\ pressed = [c \in Calls |-> FALSE]
    /\ tracev = [c \in Calls |-> NoTrace]
    /\ buffer = [c \in Calls |-> << >>]
    /\ iter = [c \in Calls |-> 0]
    /\ sent = [c \in Calls |-> << >>]
    /\ drained = [c \in Calls |-> << >>]
    /\ sampled = [c \in Calls |-> << >>]
    /\ noticed = [c \in Calls |-> FALSE]
    /\ target_pointer_width = 64
    /\ constructed = << >>
    /\ event_path = EventPath_new
    /\ path_log = << >>
    /\ path_ret = << >>
    /\ curve_path = EventPath_new
    /\ curve = << >>
    /\ out = << >>
    /\ gets = << >>
    /\ mapped = << >>
    /\ exported = << >>
    /\ queue = << >>
    /\ locked = FALSE
    /\ reports = 0
    /\ stopped = FALSE
    /\ canvas_log = << >>
    /\ display = << >>
    /\ handled = 0
    /\ dropped = { }
    /\ visible = FALSE
    /\ now = 0
    /\ timer1 = [c \in Calls |-> 0]
    /\ sent_at = [c \in Calls |-> 0]
    /\ requested = << >>
    /\ area_pc = "none"
    /\ area_notices = 0
    /\ presses = 0
    /\ bitmap_path = NoBitmapPath
    /\ handler_queue = << >>
    /\ interface_queue = << >>
    /\ made = 0
    /\ last_result = "none"
    /\ delivered = << >>
    /\ pushed = << >>
    /\ kept = << >>
    /\ assert_failed = FALSE

NextSteps ==
    \/ \E n \in RequestedSteps, path \in PlayedEventPaths \cup PlayedBitmapPaths :
           Configure(n, path)
    \/ Thread_begin(1)
    \/ Loop_sample(1)
    \/ Point_timer(1)
    \/ Point_send(1)
    \/ Point_spin(1)
    \/ Finish_button_up(1)
    \/ Finish_unlock(1)
    \/ Finish_notice(1)

\* One Playback configured with any step count and played.
SpecSteps == InitSteps /\ [][NextSteps]_vars

PendingNotices == Cardinality({ c \in Calls : noticed[c] }) - handled

\* C32: the window is locked (its playback button disabled) from the press
\* of paint until the notice of that playback is handled; a notice is sent
\* only by a thread that has released MOUSE_LOCK; so play_and_notify is
\* entered only when no playback holds the flag, and no call panics.
C32_PaintIsSerialized ==
    /\ [](/\ \A c \in Calls : pc[c] # "panicked"
          /\ \A c \in Calls : (Started(c) /\ ~noticed[c]) => locked
          /\ PendingNotices > 0 => locked
          /\ \A c \in Calls : noticed[c] => pc[c] = "done"
          /\ \A c \in Calls : pc[c] \in { "notify", "done" } => ~HoldsLock(c)
          /\ locked => Cardinality({ c \in Calls : Started(c) }) = handled + 1)
    /\ [][\A c \in Calls :
             (pc[c] = "idle" /\ pc'[c] # "idle") =>
                 /\ ~locked
                 /\ ~MOUSE_LOCK
                 /\ \A d \in Calls : ~HoldsLock(d)
                 /\ PendingNotices = 0
                 /\ pc'[c] = "spawned"
                 /\ locked']_vars

\* C32 witness: paint was pressed a second time, after the notice of the
\* first playback was handled, and the second playback is running.
C32_Witness ==
    /\ pc[1] = "done"
    /\ handled = 1
    /\ pc[2] = "spin"
    /\ locked
    /\ MOUSE_LOCK

\* The pixel is inside the canvas.
InBounds(self, px) ==
    /\ px[1] >= 0 /\ px[1] < self.width
    /\ px[2] >= 0 /\ px[2] < self.height

\* C33: on a canvas of any size, with the cursor in any state process and
\* clear can leave it in, process of a touching event at x, y in [0, 1]
\* calls set only for pixels inside the canvas: the cursor, the mapped pixel
\* and every pixel of the line between them; no call of process panics.
C33_ProcessWritesInBounds ==
    /\ [](/\ ~canvas_panic
          /\ canvas.last # << >> => InBounds(canvas, canvas.last[1]))
    /\ [][ProcessStep(TRUE) =>
             \A writes \in { ProcessWrites(canvas, CanvasStep.event) } :
                 /\ \A k \in 1..Len(writes) :
                        /\ InBounds(canvas, writes[k])
                        /\ ~EventCanvas_set_panics(canvas, writes[k][1], writes[k][2])
                        /\ writes[k] \in SetPixels(canvas')
                 /\ ~canvas_panic']_vars

\* C33 witness: on the largest canvas a touching event at the right edge was
\* processed, then a clear, then a touching event at (0.0, 1.0): a line
\* across the whole canvas from the cursor the clear left, all of it inside.
C33_Witness ==
    /\ canvas.width = MaxW
    /\ canvas.height = MaxH
    /\ canvas_nops = MaxOps
    /\ canvas_ops[1].op = "clear"
    /\ ProcessedTouchAt(0, 1)
    /\ canvas.last = << << 0, MaxH - 1 >> >>
    /\ Cardinality(SetPixels(canvas)) >= MaxW
    /\ ~canvas_panic

\* The last call made on the canvas was set.
AfterSet ==
    /\ canvas_ops # << >>
    /\ canvas_ops[Len(canvas_ops)].op = "set"

\* C34: set(x, y, val) on a pixel of the canvas leaves get as it was for
\* every other pixel of the canvas, and the dimensions, the cursor and the
\* length of the buffer as they were; the pixel written has a (byte index,
\* bit offset) pair that no other pixel of the canvas has, inside the buffer
\* of ceil(width * height / 8) bytes.
C34_SetChangesOnePixel ==
    /\ AfterSet =>
           LET call == canvas_ops[Len(canvas_ops)]
           IN  /\ EventCanvas_get(canvas, call.px, call.py) = << call.val >>
               /\ \A other \in Pixels(canvas) \ { << call.px, call.py >> } :
                      /\ EventCanvas_get(canvas, other[1], other[2])
                             = EventCanvas_get(call.before, other[1], other[2])
                      /\ index_offset(canvas, other[1], other[2])
                             # index_offset(canvas, call.px, call.py)
               /\ \A io \in { index_offset(canvas, call.px, call.py) } :
                      /\ io # << >>
                      /\ io[1][1] >= 0 /\ io[1][1] < Len(canvas.buffer)
                      /\ io[1][2] \in 0..7
               /\ canvas.width = call.before.width
               /\ canvas.height = call.before.height
               /\ canvas.last = call.before.last
               /\ Len(canvas.buffer) = Len(call.before.buffer)
    /\ 8 * Len(canvas.buffer) >= canvas.width * canvas.height
    /\ 8 * (Len(canvas.buffer) - 1) < canvas.width * canvas.height

\* C34 witness: on a canvas of MaxW by MaxH pixels, not a multiple of 8, the
\* last pixel, in the last and partly used byte of the buffer, was set after
\* two others, and exactly these three pixels are set.
C34_Witness ==
    /\ canvas.width = MaxW
    /\ canvas.height = MaxH
    /\ (MaxW * MaxH) % 8 # 0
    /\ AfterSet
    /\ canvas_ops[Len(canvas_ops)].px = MaxW - 1
    /\ canvas_ops[Len(canvas_ops)].py = MaxH - 1
    /\ canvas_ops[Len(canvas_ops)].val
    /\ Cardinality(SetPixels(canvas)) = 3
    /\ Cardinality(SetPixels(canvas_ops[Len(canvas_ops)].before)) = 2

\* The step is a call of play_and_notify by c that is rejected.
Rejected(c) == pc[c] = "idle" /\ pc'[c] = "panicked"

EventsOf(events) == { events[k] : k \in 1..Len(events) }

PlaysBitmap(c) == Started(c) /\ playback[c].path.kind = "bitmap"

\* The thread is at the head of the outer loop or past the loop.
BetweenSamples(c) == pc[c] \in { "loop", "finish", "release", "notify", "done" }

\* The INPUTs the loop sent: all but the button-up sent after the loop.
LoopInputs(c) ==
    IF pc[c] \in { "release", "notify", "done" }
    THEN SubSeq(sent[c], 1, Len(sent[c]) - 1)
    ELSE sent[c]

\* C37: in a Playback of an image-trace the INPUTs of the loop come in
\* pairs, a button-down and then a button-up at the same position, each pair
\* the two points of one sample; whenever the thread is at the head of the
\* outer loop or has left it (by break or by the step count), the buffer is
\* empty, the pairs are complete and `pressed` is false.
C37_DabsAreEmittedWhole ==
    \A c \in Calls :
        PlaysBitmap(c) =>
            LET inputs == LoopInputs(c)
            IN  /\ \A k \in 1..Len(inputs) :
                       IF k % 2 = 1
                       THEN "LEFTDOWN" \in inputs[k].dwFlags
                       ELSE /\ "LEFTUP" \in inputs[k].dwFlags
                            /\ inputs[k].dx = inputs[k - 1].dx
                            /\ inputs[k].dy = inputs[k - 1].dy
                /\ pressed[c] <=> Len(inputs) % 2 = 1
                /\ Len(inputs) + Len(buffer[c]) =
                       2 * Cardinality({ k \in 1..Len(sampled[c]) : sampled[c][k].n # 0 })
                /\ \A k \in 1..Len(sampled[c]) : sampled[c][k].n \in { 0, 2 }
                /\ BetweenSamples(c) =>
                       /\ ~pressed[c]
                       /\ buffer[c] = << >>
                       /\ Len(inputs) % 2 = 0

\* C37 witness: a playback of an image-trace emitted two dabs, each a
\* button-down and a button-up, and left the loop when the trace had no
\* further point, with `pressed` false.
C37_Witness ==
    /\ PlaysBitmap(1)
    /\ pc[1] = "finish"
    /\ iter[1] < playback[1].steps
    /\ Len(sent[1]) = 4
    /\ "LEFTDOWN" \in sent[1][3].dwFlags
    /\ "LEFTUP" \in sent[1][4].dwFlags
    /\ ~pressed[1]

(***************************************************************************)
(* BitmapWindow (hc/src/window/bitmap.rs): the handlers of its event loop  *)
(* and the thread on_paint_pressed spawns.  `locked`, `stopped`, `visible` *)
(* and `handled` stand for the fields and the dispatch of this window; no  *)
(* handler changes `path` after new, so the clone a press takes is         *)
(* bitmap_path.  Pacing is left out: delta is 0.                           *)
(*                                                                         *)
(* area_pc:  none -> picking -> none   (Cancelled or an error: notice)     *)
(*                           -> played (Ok: play_and_notify was called)    *)
(***************************************************************************)
\* The Playback built by the spawned thread from the picked area, its 5000
\* steps scaled to PaintSteps.
BitmapPlayback(path) ==
    [path |-> path, target |-> PlayedTarget, delta |-> 0, steps |-> PaintSteps]

\* The window's thread dispatches handlers.
BitmapDispatching == visible /\ ~stopped

\* BitmapWindow::init: update, then show the window.
Bitmap_init ==
    /\ ~visible /\ ~stopped
    /\ visible' = TRUE
    /\ UNCHANGED << queue, locked, reports, stopped, canvas_log, display,
                    handled, dropped, playback_vars, canvas_vars, new_vars,
                    path_vars, trace_vars, map_vars, export_vars, aux_vars,
                    pace_vars >>

\* OnButtonClick of the paint button, enabled while the window is unlocked:
\* lock(), clone the path, spawn the thread that picks the area.
Bitmap_on_paint_pressed ==
    /\ BitmapDispatching
    /\ ~locked
    /\ presses < MaxPresses
    /\ locked' = TRUE
    /\ area_pc' = "picking"
    /\ presses' = presses + 1
    /\ UNCHANGED << queue, reports, stopped, canvas_log, display, handled,
                    visible, dropped, steps_vars, queue_vars, area_notices, bitmap_path,
                    playback_vars, canvas_vars, new_vars, path_vars, trace_vars,
                    map_vars, export_vars, pace_vars >>

\* The spawned thread, pick_physical_area returned Err(Cancelled):
\* area_sender.notice(), return.
Area_cancelled ==
    /\ area_pc = "picking"
    /\ area_pc' = "none"
    /\ area_notices' = area_notices + 1
    /\ UNCHANGED << steps_vars, queue_vars, presses, bitmap_path, playback_vars, canvas_vars,
                    new_vars, path_vars, trace_vars, map_vars, export_vars,
                    window_vars, pace_vars >>

\* The spawned thread, pick_physical_area returned another error: the error
\* message, area_sender.notice(), return.
Area_failed ==
    /\ area_pc = "picking"
    /\ area_pc' = "none"
    /\ area_notices' = area_notices + 1
    /\ UNCHANGED << steps_vars, queue_vars, presses, bitmap_path, playback_vars, canvas_vars,
                    new_vars, path_vars, trace_vars, map_vars, export_vars,
                    window_vars, pace_vars >>

\* Area_ok that also sends the notice of area_selection_done.
Area_ok_noticing(c) ==
    /\ area_pc = "picking"
    /\ area_pc' = "played"
    /\ area_notices' = area_notices + 1
    /\ play_and_notify_entry(c, BitmapPlayback(bitmap_path))
    /\ UNCHANGED << steps_vars, queue_vars, presses, bitmap_path, canvas_vars, new_vars,
                    path_vars, trace_vars, map_vars, export_vars, window_vars >>

\* The spawned thread, pick_physical_area returned Ok(area):
\* Playback { path, target: area, .. }.play_and_notify(done_sender).
Area_ok(c) ==
    /\ area_pc = "picking"
    /\ area_pc' = "played"
    /\ play_and_notify_entry(c, BitmapPlayback(bitmap_path))
    /\ UNCHANGED << steps_vars, queue_vars, area_notices, presses, bitmap_path, canvas_vars,
                    new_vars, path_vars, trace_vars, map_vars, export_vars,
                    window_vars >>

\* OnNotice of area_selection_done: on_area_done: unlock().
Bitmap_on_area_done ==
    /\ BitmapDispatching
    /\ area_notices > 0
    /\ area_notices' = area_notices - 1
    /\ locked' = FALSE
    /\ UNCHANGED << queue, reports, stopped, canvas_log, display, handled,
                    visible, dropped, steps_vars, queue_vars, area_pc, presses, bitmap_path,
                    playback_vars, canvas_vars, new_vars, path_vars, trace_vars,
                    map_vars, export_vars, pace_vars >>

\* OnNotice of display_paint_done: on_paint_done: stop_thread_dispatch().
Bitmap_on_paint_done ==
    /\ BitmapDispatching
    /\ Cardinality({ c \in Calls : noticed[c] }) > handled
    /\ handled' = handled + 1
    /\ stopped' = TRUE
    /\ UNCHANGED << queue, locked, reports, canvas_log, display, visible,
                    dropped, playback_vars, canvas_vars, new_vars, path_vars,
                    trace_vars, map_vars, export_vars, aux_vars, pace_vars >>

\* OnWindowClose: on_exit: stop_thread_dispatch().
Bitmap_on_exit ==
    /\ BitmapDispatching
    /\ stopped' = TRUE
    /\ UNCHANGED << queue, locked, reports, canvas_log, display, handled,
                    visible, dropped, playback_vars, canvas_vars, new_vars,
                    path_vars, trace_vars, map_vars, export_vars, aux_vars,
                    pace_vars >>

\* OnButtonClick of the cancel button, enabled while the window is unlocked:
\* on_cancel_pressed: stop_thread_dispatch().
Bitmap_on_cancel_pressed ==
    /\ BitmapDispatching
    /\ ~locked
    /\ stopped' = TRUE
    /\ UNCHANGED << queue, locked, reports, canvas_log, display, handled,
                    visible, dropped, playback_vars, canvas_vars, new_vars,
                    path_vars, trace_vars, map_vars, export_vars, aux_vars,
                    pace_vars >>

InitBitmapWindow ==
    /\ canvas = IdleCanvas
    /\ canvas_panic = FALSE
    /\ canvas_ops = << >>
    /\ canvas_nops = 0
    /\ MOUSE_LOCK = FALSE
    /\ pc = [c \in Calls |-> "idle"]
    /\ playback = [c \in Calls |-> NoPlayback]
    /\ x = [c \in Calls |-> QInt(0)]
    /\ pressed = [c \in Calls |-> FALSE]
    /\ tracev = [c \in Calls |-> NoTrace]
    /\ buffer = [c \in Calls |-> << >>]
    /\ iter = [c \in Calls |-> 0]
    /\ sent = [c \in Calls |-> << >>]
    /\ drained = [c \in Calls |-> << >>]
    /\ sampled = [c \in Calls |-> << >>]
    /\ noticed = [c \in Calls |-> FALSE]
    /\ target_pointer_width = 64
    /\ constructed = << >>
    /\ event_path = EventPath_new
    /\ path_log = << >>
    /\ path_ret = << >>
    /\ curve_path = EventPath_new
    /\ curve = << >>
    /\ out = << >>
    /\ gets = << >>
    /\ mapped = << >>
    /\ exported = << >>
    /\ queue = << >>
    /\ locked = FALSE
    /\ reports = 0
    /\ stopped = FALSE
    /\ canvas_log = << >>
    /\ display = << >>
    /\ handled = 0
    /\ dropped = { }
    /\ visible = FALSE
    /\ now = 0
    /\ timer1 = [c \in Calls |-> 0]
    /\ sent_at = [c \in Calls |-> 0]
    /\ requested = << >>
    /\ area_pc = "none"
    /\ area_notices = 0
    /\ presses = 0
    /\ bitmap_path \in PlayedBitmapPaths
    /\ handler_queue = << >>
    /\ interface_queue = << >>
    /\ made = 0
    /\ last_result = "none"
    /\ delivered = << >>
    /\ pushed = << >>
    /\ kept = << >>
    /\ assert_failed = FALSE

NextBitmapWindow ==
    \/ Bitmap_init
    \/ Bitmap_on_paint_pressed
    \/ Area_cancelled
    \/ Area_failed
    \/ \E c \in Calls : Area_ok(c)
    \/ Bitmap_on_area_done
    \/ Bitmap_on_paint_done
    \/ Bitmap_on_exit
    \/ Bitmap_on_cancel_pressed
    \/ \E c \in Calls : Thread_begin(c)
    \/ \E c \in Calls : Loop_sample(c)
    \/ \E c \in Calls : Point_timer(c)
    \/ \E c \in Calls : Point_send(c)
    \/ \E c \in Calls : Point_spin(c)
    \/ \E c \in Calls : Finish_button_up(c)
    \/ \E c \in Calls : Finish_unlock(c)
    \/ \E c \in Calls : Finish_notice(c)

\* One run of the bitmap window, the threads it spawns and their playbacks.
SpecBitmapWindow == InitBitmapWindow /\ [][NextBitmapWindow]_vars

\* C38: the window is locked while an area is picked, while a notice of the
\* area selection waits, and from the call of play_and_notify on, for good;
\* it is unlocked only by on_area_done, after a selection that was cancelled
\* or failed and started no playback; a handled notice of a finished
\* playback has stopped the dispatch and left the window locked; so at most
\* one call of play_and_notify is made in a run and none is rejected.
C38_BitmapWindowPlaysOnce ==
    /\ [](/\ area_pc = "picking" => locked
          /\ area_notices > 0 => locked
          /\ (\E c \in Calls : pc[c] # "idle") => locked /\ area_pc = "played"
          /\ area_pc = "played" => \E c \in Calls : pc[c] # "idle"
          /\ handled > 0 => stopped /\ locked
          /\ area_notices \in { 0, 1 }
          /\ area_notices > 0 => area_pc = "none"
          /\ Cardinality({ c \in Calls : pc[c] # "idle" }) <= 1
          /\ \A c \in Calls : pc[c] # "panicked"
          /\ Cardinality({ c \in Calls : HoldsLock(c) }) <= 1)
    /\ [][/\ (locked /\ ~locked') =>
                 /\ area_notices' = area_notices - 1
                 /\ \A c \in Calls : pc[c] = "idle" /\ pc'[c] = "idle"
          /\ \A c \in Calls :
                 (pc[c] = "idle" /\ pc'[c] # "idle") =>
                     /\ locked /\ locked'
                     /\ pc'[c] = "spawned"
                     /\ \A d \in Calls \ { c } : pc[d] = "idle"
          /\ (~stopped /\ stopped' /\ handled' > handled) => locked']_vars

\* C38 witness: the first area selection was cancelled or failed and the
\* window was unlocked; after a second press the area was picked, the
\* playback ran to its end, and on_paint_done stopped the dispatch with the
\* window locked and one playback made.
C38_Witness ==
    /\ presses = 2
    /\ area_pc = "played"
    /\ pc[1] = "done"
    /\ pc[2] = "idle"
    /\ Len(sent[1]) >= 3
    /\ handled = 1
    /\ stopped
    /\ locked

(***************************************************************************)
(* Queue (stu/src/report.rs).  The device library is outside the           *)
(* repository: a report is modelled by what handleReport does with it, the *)
(* pen data packets it hands to on_pen_data and how it returns: "complete" *)
(* (returned != 0 and pointer at the end), "incomplete" or "error".        *)
(***************************************************************************)
\* The event on_pen_data pushes for the k-th packet of report r.
PenEvent(r, k) == [report |-> r, index |-> k]

\* The reports the device can make as its r-th.
Reports(r) ==
    { [events |-> [k \in 1..n |-> PenEvent(r, k)], outcome |-> outcome] :
          n \in 0..MaxPenData, outcome \in { "complete", "incomplete", "error" } }

\* pop_event returning None and leaving the queue as it is.
pop_event_never(q) == [event |-> << >>, queue |-> q]

\* ReportHandler::pop_event: queue.pop_front(), << >> standing for None.
pop_event(q) ==
    IF q = << >> THEN [event |-> << >>, queue |-> q]
    ELSE [event |-> << Head(q) >>, queue |-> Tail(q)]

\* Queue::handle: the assertion, then handleReport pushing the events of the
\* report; an error returns at once, an incomplete handling clears the queue.
handle(q, report) ==
    IF Len(q) # 0 THEN [asserted |-> TRUE, queue |-> q, result |-> "panic"]
    ELSE IF report.outcome = "error"
    THEN [asserted |-> FALSE, queue |-> q \o report.events, result |-> "error"]
    ELSE IF report.outcome = "incomplete"
    THEN [asserted |-> FALSE, queue |-> << >>, result |-> "ok"]
    ELSE [asserted |-> FALSE, queue |-> q \o report.events, result |-> "ok"]

\* The part try_recv and recv share: a buffered event first; otherwise the
\* report polled (<< >> for none, `poll_failed` for an error of the poll),
\* handle, and pop_front; `none` is the error for no event.
receive(q, polled, poll_failed, none) ==
    LET first == pop_event(q)
    IN  IF first.event # << >>
        THEN [queue |-> first.queue, result |-> "ok", event |-> first.event,
              polled |-> FALSE, asserted |-> FALSE]
        ELSE IF poll_failed
        THEN [queue |-> q, result |-> "failed", event |-> << >>,
              polled |-> FALSE, asserted |-> FALSE]
        ELSE IF polled = << >>
        THEN [queue |-> q, result |-> none, event |-> << >>,
              polled |-> FALSE, asserted |-> FALSE]
        ELSE LET h == handle(q, polled[1])
                 front == IF h.queue = << >> THEN << >> ELSE << Head(h.queue) >>
             IN  IF h.asserted
                 THEN [queue |-> q, result |-> "panic", event |-> << >>,
                       polled |-> TRUE, asserted |-> TRUE]
                 ELSE IF h.result = "error"
                 THEN [queue |-> h.queue, result |-> "failed", event |-> << >>,
                       polled |-> TRUE, asserted |-> FALSE]
                 ELSE IF front = << >>
                 THEN [queue |-> h.queue, result |-> none, event |-> << >>,
                       polled |-> TRUE, asserted |-> FALSE]
                 ELSE [queue |-> Tail(h.queue), result |-> "ok", event |-> front,
                       polled |-> TRUE, asserted |-> FALSE]

\* The state after a receive call that polled `polled` and came out as r.
Received(r, polled) ==
    /\ handler_queue' = r.queue
    /\ last_result' = r.result
    /\ delivered' = delivered \o r.event
    /\ assert_failed' = r.asserted
    /\ interface_queue' = IF r.polled THEN Tail(interface_queue) ELSE interface_queue
    /\ pushed' = IF r.polled /\ ~r.asserted THEN pushed \o polled[1].events ELSE pushed
    /\ kept' = IF r.polled /\ ~r.asserted /\ polled[1].outcome # "incomplete"
               THEN kept \o polled[1].events ELSE kept

\* The device puts a report into its interface queue.
Device_enqueue ==
    /\ made < MaxQReports
    /\ \E report \in Reports(made + 1) :
           interface_queue' = Append(interface_queue, report)
    /\ made' = made + 1
    /\ UNCHANGED << handler_queue, last_result, delivered, pushed, kept,
                    assert_failed, steps_vars, bitmap_vars, not_aux_vars >>

\* Queue::try_recv: try_getReport fails, or reports the head of the interface
\* queue, or reports that none is available.
Queue_try_recv ==
    /\ ~assert_failed
    /\ \E poll_failed \in BOOLEAN :
           LET polled == IF interface_queue = << >> THEN << >>
                         ELSE << Head(interface_queue) >>
           IN  Received(receive(handler_queue, polled, poll_failed, "empty"), polled)
    /\ UNCHANGED << made, steps_vars, bitmap_vars, not_aux_vars >>

\* Queue::recv: wait_getReport fails, or waits until the interface queue has
\* a report; no event after handle is InvalidReport.
Queue_recv ==
    /\ ~assert_failed
    /\ \E poll_failed \in BOOLEAN :
           /\ handler_queue # << >> \/ poll_failed \/ interface_queue # << >>
           /\ LET polled == IF interface_queue = << >> THEN << >>
                            ELSE << Head(interface_queue) >>
              IN  Received(receive(handler_queue, polled, poll_failed, "invalid"), polled)
    /\ UNCHANGED << made, steps_vars, bitmap_vars, not_aux_vars >>

InitQueue ==
    /\ canvas = IdleCanvas
    /\ canvas_panic = FALSE
    /\ canvas_ops = << >>
    /\ canvas_nops = 0
    /\ MOUSE_LOCK = FALSE
    /\ pc = [c \in Calls |-> "idle"]
    /\ playback = [c \in Calls |-> NoPlayback]
    /\ x = [c \in Calls |-> QInt(0)]
    /\ pressed = [c \in Calls |-> FALSE]
    /\ tracev = [c \in Calls |-> NoTrace]
    /\ buffer = [c \in Calls |-> << >>]
    /\ iter = [c \in Calls |-> 0]
    /\ sent = [c \in Calls |-> << >>]
    /\ drained = [c \in Calls |-> << >>]
    /\ sampled = [c \in Calls |-> << >>]
    /\ noticed = [c \in Calls |-> FALSE]
    /\ target_pointer_width = 64
    /\ constructed = << >>
    /\ event_path = EventPath_new
    /\ path_log = << >>
    /\ path_ret = << >>
    /\ curve_path = EventPath_new
    /\ curve = << >>
    /\ out = << >>
    /\ gets = << >>
    /\ mapped = << >>
    /\ exported = << >>
    /\ queue = << >>
    /\ locked = FALSE
    /\ reports = 0
    /\ stopped = FALSE
    /\ canvas_log = << >>
    /\ display = << >>
    /\ handled = 0
    /\ dropped = { }
    /\ visible = FALSE
    /\ now = 0
    /\ timer1 = [c \in Calls |-> 0]
    /\ sent_at = [c \in Calls |-> 0]
    /\ requested = << >>
    /\ area_pc = "none"
    /\ area_notices = 0
    /\ presses = 0
    /\ bitmap_path = NoBitmapPath
    /\ handler_queue = << >>
    /\ interface_queue = << >>
    /\ made = 0
    /\ last_result = "none"
    /\ delivered = << >>
    /\ pushed = << >>
    /\ kept = << >>
    /\ assert_failed = FALSE

NextQueue ==
    \/ Device_enqueue
    \/ Queue_try_recv
    \/ Queue_recv

\* One report Queue, its device and its caller.
SpecQueue == InitQueue /\ [][NextQueue]_vars

\* C39 as stated: the assertion of handle never fails, and the events
\* returned, followed by those buffered, are all the events pushed, in the
\* order of their push.
C39_EveryPushedEventIsDelivered ==
    /\ ~assert_failed
    /\ delivered \o handler_queue = pushed

\* C39: the assertion of handle never fails; the events returned, followed
\* by those buffered, are the events pushed by the reports whose handling
\* was not incomplete, in the order of their push, each once; the events of
\* a report handled incompletely are cleared and never returned.
C39_BufferedEventsFirst ==
    /\ ~assert_failed
    /\ last_result # "panic"
    /\ delivered \o handler_queue = kept
    /\ \A i \in 1..Len(delivered), j \in 1..Len(delivered) :
           i < j => \/ delivered[i].report < delivered[j].report
                    \/ /\ delivered[i].report = delivered[j].report
                       /\ delivered[i].index < delivered[j].index

\* C39 witness: a report of two events was handled and its events were
\* returned by two calls, the second from the buffer, in the order of their
\* push; then a report handled incompletely had its events cleared.
C39_Witness ==
    /\ delivered = << PenEvent(1, 1), PenEvent(1, 2) >>
    /\ Len(pushed) = 4
    /\ kept = delivered
    /\ handler_queue = << >>
    /\ interface_queue = << >>
    /\ last_result \in { "empty", "invalid" }
    /\ ~assert_failed

====
